---- MODULE Spec2Model ----
(***************************************************************************)
(* Model of the research portal's spreadsheet download path:               *)
(*   POST /api/download-excel  (src/src/app/api/download-excel/route.ts)   *)
(*   generateFinancialExcel    (src/src/lib/excel-generator.ts)            *)
(*   calcYoYGrowth             (src/src/lib/utils.ts)                      *)
(* A request body is a JSON value.  A JSON object is modelled as a record  *)
(* together with the set `has` of the keys that are present; reading a key *)
(* that is not in `has` yields JavaScript's undefined.                     *)
(***************************************************************************)
EXTENDS Integers, Sequences, FiniteSets, TLC

VARIABLES request, response, renderCalls, workbook, current, prior, growth,
          upload, apiResponse, extractorCalls, llmCalls, fnInput, fnOutput,
          page, widget, inFlight, sent, clicks, results, loading

\* POST /api/download-excel
downloadVars == <<request, response, renderCalls, workbook>>
\* calcYoYGrowth
growthVars == <<current, prior, growth>>
\* POST /api/extract-financial and POST /api/analyze-earnings
uploadVars == <<upload, apiResponse, extractorCalls, llmCalls>>
\* the argument and the result of a pure function under check
fnVars == <<fnInput, fnOutput>>

\* the endpoints and the functions behind them
serverVars == <<downloadVars, growthVars, uploadVars, fnVars>>
\* FinancialPage / EarningsPage with its FileUpload widget and its requests
pageVars == <<page, widget, inFlight, sent, clicks>>
\* the components of the browser: the page, FinancialResults, LoadingState
uiVars == <<pageVars, results, loading>>

vars == <<serverVars, uiVars>>

(***************************************************************************)
(* Bounds of the model.                                                    *)
(***************************************************************************)
MaxPeriods == 2
MaxItems == 3

(***************************************************************************)
(* JavaScript values.  A number is the exact rational v / d with d > 0     *)
(* (period values are decimals with one fractional digit, d = 10).         *)
(***************************************************************************)
Num(n, den) == [t |-> "number", v |-> n, d |-> den, s |-> ""]
RECURSIVE GCD(_, _)
GCD(a, b) == IF b = 0 THEN a ELSE GCD(b, a % b)
\* the rational n / den (den > 0) in lowest terms
Rat(n, den) ==
    LET g == GCD(IF n < 0 THEN -n ELSE n, den)
    IN  Num(n \div g, den \div g)
Dec(tenths) == Rat(tenths, 10)
Str(x) == [t |-> "string", v |-> 0, d |-> 1, s |-> x]
Null == [t |-> "null", v |-> 0, d |-> 1, s |-> ""]
Undefined == [t |-> "undefined", v |-> 0, d |-> 1, s |-> ""]
NaN == [t |-> "NaN", v |-> 0, d |-> 1, s |-> ""]

IsNumber(x) == x.t = "number"
Abs(n) == IF n < 0 THEN -n ELSE n
Sign(n) == IF n < 0 THEN -1 ELSE IF n > 0 THEN 1 ELSE 0

(***************************************************************************)
(* JavaScript strings (String.prototype); positions are counted from 0.    *)
(***************************************************************************)
Min(a, b) == IF a < b THEN a ELSE b

\* s.slice(from, to) for 0 <= from
Slice(s, from, to) == SubSeq(s, from + 1, Min(to, Len(s)))

\* s.includes(sub)
Includes(s, sub) ==
    \E i \in 1..(Len(s) - Len(sub) + 1) : SubSeq(s, i, i + Len(sub) - 1) = sub

\* s.startsWith(sub), s.endsWith(sub)
StartsWith(s, sub) == Len(sub) <= Len(s) /\ SubSeq(s, 1, Len(sub)) = sub
EndsWith(s, sub) == Len(sub) <= Len(s) /\ SubSeq(s, Len(s) - Len(sub) + 1, Len(s)) = sub

RECURSIVE Translate(_, _, _)
\* s with every character that occurs in from replaced by the character at
\* the same place of to
Translate(s, from, to) ==
    IF s = "" THEN ""
    ELSE LET c == SubSeq(s, 1, 1)
             at == {i \in 1..Len(from) : SubSeq(from, i, i) = c}
         IN  (IF at = {} THEN c ELSE LET i == CHOOSE k \in at : TRUE IN SubSeq(to, i, i))
                \o Translate(SubSeq(s, 2, Len(s)), from, to)

\* s.toLowerCase()
toLowerCase(s) == Translate(s, "ABCDEFGHIJKLMNOPQRSTUVWXYZ", "abcdefghijklmnopqrstuvwxyz")

\* item.values[period]: undefined when the key is absent
Lookup(values, period) == IF period \in DOMAIN values THEN values[period] ELSE Undefined

\* x === 0
IsZero(x) == IsNumber(x) /\ x.v = 0

\* x < 0 ; x >= 0 (both false for NaN)
IsNegative(x) == IsNumber(x) /\ x.v < 0
IsNonNegative(x) == IsNumber(x) /\ x.v >= 0

(***************************************************************************)
(* utils.ts                                                                *)
(***************************************************************************)
calcYoYGrowth_NoAbs(cur, pri) ==
    IF cur = Null \/ pri = Null \/ IsZero(pri) THEN Null
    ELSE IF IsNumber(cur) /\ IsNumber(pri)
         THEN IF pri.v < 0
              THEN Rat(-((cur.v * pri.d - pri.v * cur.d) * 100), cur.d * Abs(pri.v))
              ELSE Rat((cur.v * pri.d - pri.v * cur.d) * 100, cur.d * Abs(pri.v))
         ELSE NaN

calcYoYGrowth_Swapped(cur, pri) ==
    IF cur = Null \/ pri = Null \/ IsZero(pri) THEN Null
    ELSE IF IsNumber(cur) /\ IsNumber(pri)
         THEN Rat((pri.v * cur.d - cur.v * pri.d) * 100, cur.d * Abs(pri.v))
         ELSE NaN

\* ((current - prior) / Math.abs(prior)) * 100, null when an operand is null
\* or prior is 0; arithmetic on undefined gives NaN.
calcYoYGrowth(cur, pri) ==
    IF cur = Null \/ pri = Null \/ IsZero(pri) THEN Null
    ELSE IF IsNumber(cur) /\ IsNumber(pri)
         THEN Rat((cur.v * pri.d - pri.v * cur.d) * 100, cur.d * Abs(pri.v))
         ELSE NaN

\* value.toFixed(1): the nearest number of tenths, the larger in magnitude of
\* two equally near, with "-" for every negative value (also one that rounds
\* to zero); value is taken as the exact rational
toFixed1(value) ==
    IF ~IsNumber(value) THEN "NaN"
    ELSE LET tenths == (2 * Abs(value.v) * 10 + value.d) \div (2 * value.d)
         IN  (IF value.v < 0 THEN "-" ELSE "")
                \o ToString(tenths \div 10) \o "." \o ToString(tenths % 10)

\* formatPct(value, decimals = 1)
formatPct(value) ==
    IF value = Null THEN "N/A"
    ELSE (IF IsNumber(value) /\ value.v >= 0 THEN "+" ELSE "") \o toFixed1(value) \o "%"

\* x.toUpperCase()
toUpperCase(x) == Translate(x, "abcdefghijklmnopqrstuvwxyz", "ABCDEFGHIJKLMNOPQRSTUVWXYZ")

getCurrencySymbol_CaseSensitive(currency) ==
    LET key == currency
    IN  CASE key = "USD" -> "$"
          [] key = "EUR" -> "€"
          [] key = "GBP" -> "£"
          [] key = "JPY" -> "¥"
          [] key = "INR" -> "₹"
          [] key = "CAD" -> "C$"
          [] key = "AUD" -> "A$"
          [] key = "CHF" -> "Fr"
          [] key = "CNY" -> "¥"
          [] key = "KRW" -> "₩"
          [] OTHER -> currency \o " "

\* symbols[currency?.toUpperCase()] ?? currency + ' '
getCurrencySymbol(currency) ==
    LET key == toUpperCase(currency)
    IN  CASE key = "USD" -> "$"
          [] key = "EUR" -> "€"
          [] key = "GBP" -> "£"
          [] key = "JPY" -> "¥"
          [] key = "INR" -> "₹"
          [] key = "CAD" -> "C$"
          [] key = "AUD" -> "A$"
          [] key = "CHF" -> "Fr"
          [] key = "CNY" -> "¥"
          [] key = "KRW" -> "₩"
          [] OTHER -> currency \o " "

(***************************************************************************)
(* types/index.ts                                                          *)
(***************************************************************************)
ConfidenceLevel == {"high", "medium", "low", "missing"}

LineItemCategory ==
    {"Revenue", "Cost", "Gross Profit", "Operating Expense", "Operating Income",
     "Non-Operating", "Pre-tax Income", "Tax", "Net Income", "Per Share", "Other"}

\* the keys of FinancialExtractionResult
RequiredFields ==
    {"companyName", "reportType", "documentTitle", "periods", "currency", "unit",
     "lineItems", "extractionNotes"}

(***************************************************************************)
(* Request bodies.                                                         *)
(***************************************************************************)
Period(i) == "FY" \o ToString(2024 - i)
Periods(n) == [i \in 1..n |-> Period(i)]
PeriodSet(n) == {Period(i) : i \in 1..n}

\* the line item of the spec's end-to-end scenario
ScenarioItem ==
    [label |-> "Operating costs", standardLabel |-> "Operating Expenses",
     category |-> "Operating Expense", isTotal |-> FALSE,
     values |-> (Period(1) :> Dec(-1205)) @@ (Period(2) :> Dec(-1000)),
     confidence |-> "high", notes |-> ""]

ScenarioData ==
    [kind |-> "object", has |-> RequiredFields,
     companyName |-> "Acme Corp", reportType |-> "Annual Report",
     documentTitle |-> "Form 10-K", periods |-> Periods(2), currency |-> "USD",
     unit |-> "millions", lineItems |-> <<ScenarioItem>>,
     extractionNotes |-> "ok"]

\* a body that is not JSON, and the JSON value null
InvalidJsonBody == [ScenarioData EXCEPT !.kind = "invalid", !.has = {}]
NullBody == [ScenarioData EXCEPT !.kind = "null", !.has = {}]

\* JSON objects in which any of the eight keys may be absent
ShapeRequests ==
    {[ScenarioData EXCEPT !.has = h] : h \in SUBSET RequiredFields}

\* complete records whose free-text fields may be empty strings
EmptyOr(x) == {"", x}
TextRequests ==
    {[ScenarioData EXCEPT !.companyName = c, !.documentTitle = t,
                          !.extractionNotes = e, !.currency = u]
        : c \in EmptyOr("Acme Corp"), t \in EmptyOr("Form 10-K"),
          e \in EmptyOr("ok"), u \in {"", "USD", "usd", "XYZ"}}

\* the amounts a period value is drawn from: a key may also be absent or null
Amounts == {Dec(-1205), Dec(-1000), Dec(0), Dec(1000)}
ValueMaps(n) == UNION {[S -> Amounts \cup {Null}] : S \in SUBSET PeriodSet(n)}
ValueRequests ==
    {[ScenarioData EXCEPT !.periods = Periods(n),
                          !.lineItems = <<[ScenarioItem EXCEPT !.values = vm]>>]
        : n \in 0..MaxPeriods, vm \in ValueMaps(MaxPeriods)}

\* lists of line items of up to MaxItems items
SeqsUpTo(S, n) == UNION {[1..k -> S] : k \in 0..n}
Categories == {"Revenue", "Cost", "Net Income"}
CategoryItems == {[ScenarioItem EXCEPT !.category = c] : c \in Categories}
CategoryRequests ==
    {[ScenarioData EXCEPT !.lineItems = l] : l \in SeqsUpTo(CategoryItems, MaxItems)}

\* JSON.parse does not check ConfidenceLevel: "unknown" stands for any string
\* that is none of the four levels
ConfidenceItems ==
    {[ScenarioItem EXCEPT !.confidence = c] : c \in ConfidenceLevel \cup {"unknown"}}
ConfidenceRequests ==
    {[ScenarioData EXCEPT !.lineItems = l] : l \in SeqsUpTo(ConfidenceItems, MaxItems)}

\* labels as found in the document against their standard names: equal,
\* different, and different only in case and spacing
LabelItems ==
    {[ScenarioItem EXCEPT !.label = l, !.standardLabel = t] :
        l \in {"Operating costs", "Revenue", " revenue "}, t \in {"Operating Expenses", "Revenue"}}
LabelRequests ==
    {[ScenarioData EXCEPT !.lineItems = l] : l \in SeqsUpTo(LabelItems, MaxItems)}

\* total and normal rows of each confidence, with negative values, and with
\* a positive and a missing one
TotalItems ==
    {[ScenarioItem EXCEPT !.isTotal = t, !.confidence = c, !.values = vm] :
        t \in BOOLEAN, c \in ConfidenceLevel,
        vm \in {ScenarioItem.values, [p \in PeriodSet(2) |-> IF p = Period(1) THEN Dec(1000) ELSE Null]}}
TotalRequests ==
    {[ScenarioData EXCEPT !.periods = Periods(n), !.lineItems = <<i>>] :
        n \in 0..MaxPeriods, i \in TotalItems}

\* company names: safe and unsafe characters, of 40 characters, of 41, and
\* far longer
CompanyNames ==
    {"Acme Corp", "A", "acme_corp-2024", "A&B/C.D Ltd", "../../etc/passwd", "a\"b\nc",
     "Northern_Lights-Holdings_2024_Group_PLC_",
     "Northern Lights Holdings & Partners (UK).",
     "A/B\\C:D*E?F\"G<H>I|J K.L,M;N=O+P#Q%R&S@T!U~V^W",
     "Consolidated International Holdings, Subsidiaries & Affiliated Undertakings of Delaware, Incorporated"}
NameRequests == {[ScenarioData EXCEPT !.companyName = c] : c \in CompanyNames}

Requests ==
    {InvalidJsonBody, NullBody} \cup ShapeRequests \cup TextRequests
        \cup ValueRequests \cup CategoryRequests \cup ConfidenceRequests
        \cup LabelRequests \cup TotalRequests \cup NameRequests

(***************************************************************************)
(* excel-generator.ts                                                      *)
(***************************************************************************)
COLORS ==
    [confHigh |-> "FFD1FAE5", confMedium |-> "FFFEF3C7", confLow |-> "FFFCE7D3",
     confMissing |-> "FFFEE2E2", totalBg |-> "FFE8EAF6", totalFont |-> "FF3730A3",
     headerBg |-> "FF1E1B4B", headerFont |-> "FFFFFFFF", growthPos |-> "FF065F46",
     growthNeg |-> "FF9B1C1C", lightGray |-> "FFF8FAFC", notesBg |-> "FFFFF7ED",
     naFont |-> "FF9CA3AF", negativeFont |-> "FF991B1B", none |-> "undefined",
     catRevenue |-> "FFDBEAFE", catCost |-> "FFFDE8D8", catProfit |-> "FFD1FAE5",
     catExpense |-> "FFFEF3C7", catIncome |-> "FFE0E7FF", catTax |-> "FFF3F4F6",
     catOther |-> "FFF9FAFB"]

categoryColor_TaxBeforeIncome(category) ==
    LET has(w) == Includes(toLowerCase(category), w)
    IN  IF has("revenue") THEN COLORS.catRevenue
        ELSE IF has("cost") THEN COLORS.catCost
        ELSE IF has("gross") THEN COLORS.catProfit
        ELSE IF has("expense") THEN COLORS.catExpense
        ELSE IF has("tax") \/ has("net") THEN COLORS.catTax
        ELSE IF has("income") \/ has("ebit") THEN COLORS.catIncome
        ELSE COLORS.catOther

categoryColor(category) ==
    LET has(w) == Includes(toLowerCase(category), w)
    IN  IF has("revenue") THEN COLORS.catRevenue
        ELSE IF has("cost") THEN COLORS.catCost
        ELSE IF has("gross") THEN COLORS.catProfit
        ELSE IF has("expense") THEN COLORS.catExpense
        ELSE IF has("income") \/ has("ebit") THEN COLORS.catIncome
        ELSE IF has("tax") \/ has("net") THEN COLORS.catTax
        ELSE COLORS.catOther

confidenceColor(c) ==
    CASE c = "high" -> COLORS.confHigh
      [] c = "medium" -> COLORS.confMedium
      [] c = "low" -> COLORS.confLow
      [] c = "missing" -> COLORS.confMissing
      [] OTHER -> COLORS.none

\* a worksheet cell: its value, number format, fill colour and font colour
Cell(value, numFmt, fill, font) ==
    [value |-> value, numFmt |-> numFmt, fill |-> fill, font |-> font]

\* a row is a function from the column indices written so far to cells;
\* row.getCell(c).value = ... overwrites what an earlier write put in column c
EmptyRow == [c \in {} |-> Cell(Undefined, "", "", "")]
Put(row, col, cell) ==
    [c \in DOMAIN row \cup {col} |-> IF c = col THEN cell ELSE row[c]]

\* the writes of a sequence of <<column, cell>> pairs, applied in program order
RECURSIVE ApplyWrites(_, _)
ApplyWrites(row, writes) ==
    IF writes = <<>> THEN row
    ELSE ApplyWrites(Put(row, writes[1][1], writes[1][2]), Tail(writes))

\* data.periods.length; reading .length of undefined throws a TypeError
PeriodsThrows(data) == "periods" \notin data.has

confColIdx_PlusOne(data) == 3 + Len(data.periods) + (Len(data.periods) - 1) + 1

confColIdx(data) == 3 + Len(data.periods) + (Len(data.periods) - 1)

totalCols(data) == 2 + Len(data.periods) + (Len(data.periods) - 1) + 1 + 1

\* ${x} in a template literal: the text "undefined" for an absent key
Text(data, f) == IF f \in data.has THEN data[f] ELSE "undefined"

HeaderCell(label) == Cell(Str(label), "", COLORS.headerBg, COLORS.headerFont)

\* row 5: setHeader(colIdx, value) for every column, in program order
HeaderRow(data) ==
    LET n == Len(data.periods)
        currSymbol == getCurrencySymbol(Text(data, "currency"))
        periodHeaders ==
            [i \in 1..n |->
                <<3 + (i - 1),
                  HeaderCell(data.periods[i] \o "\n(" \o currSymbol \o " "
                             \o Text(data, "unit") \o ")")>>]
        yoyHeaders ==
            [i \in 1..(n - 1) |->
                <<3 + n + (i - 1),
                  HeaderCell("YoY\n" \o data.periods[i] \o "/" \o data.periods[i + 1])>>]
    IN  ApplyWrites(EmptyRow,
            <<<<1, HeaderCell("Category")>>, <<2, HeaderCell("Line Item")>>>>
            \o periodHeaders \o yoyHeaders
            \o <<<<confColIdx(data), HeaderCell("Confidence")>>,
                 <<confColIdx(data) + 1, HeaderCell("Notes")>>>>)

PeriodCell_TotalFontFirst(item, period) ==
    LET val == Lookup(item.values, period)
        bgColor == IF item.isTotal THEN COLORS.totalBg ELSE confidenceColor(item.confidence)
        fontColor == IF item.isTotal THEN COLORS.totalFont ELSE COLORS.none
    IN  IF val = Null \/ val = Undefined
        THEN Cell(Str("N/A"), "", bgColor, COLORS.naFont)
        ELSE Cell(val, "#,##0.0", bgColor,
                  IF item.isTotal THEN fontColor
                  ELSE IF IsNegative(val) THEN COLORS.negativeFont ELSE fontColor)

\* the period value cell of one item (lines 249-266)
PeriodCell(item, period) ==
    LET val == Lookup(item.values, period)
        bgColor == IF item.isTotal THEN COLORS.totalBg ELSE confidenceColor(item.confidence)
        fontColor == IF item.isTotal THEN COLORS.totalFont ELSE COLORS.none
    IN  IF val = Null \/ val = Undefined
        THEN Cell(Str("N/A"), "", bgColor, COLORS.naFont)
        ELSE Cell(val, "#,##0.0", bgColor,
                  IF IsNegative(val) THEN COLORS.negativeFont ELSE fontColor)

\* what a spreadsheet shows for a numeric cell formatted '+0.0%;-0.0%;0.0%':
\* the section is chosen by the sign of the value, the magnitude is the value
\* times 100 rounded to one decimal (tenths of a percent, half away from zero)
PercentDisplay(cell) ==
    [sign |-> IF cell.value.v > 0 THEN "+" ELSE IF cell.value.v < 0 THEN "-" ELSE "",
     tenths |-> (2 * Abs(cell.value.v) * 1000 + cell.value.d) \div (2 * cell.value.d)]

\* the year-over-year cell of one item for the pair (cur, prior) (lines 271-292)
GrowthCell(item, curPeriod, priorPeriod) ==
    LET cur == Lookup(item.values, curPeriod)
        pri == Lookup(item.values, priorPeriod)
        g == calcYoYGrowth(cur, pri)
    IN  IF g = Null
        THEN Cell(Str("N/A"), "", COLORS.lightGray, COLORS.naFont)
        ELSE Cell(IF IsNumber(g) THEN Rat(g.v, g.d * 100) ELSE NaN,
                  "+0.0%;-0.0%;0.0%", COLORS.lightGray,
                  IF IsNonNegative(g) THEN COLORS.growthPos ELSE COLORS.growthNeg)

confLabels(c) ==
    CASE c = "high" -> Str("High")
      [] c = "medium" -> Str("Medium")
      [] c = "low" -> Str("Low")
      [] c = "missing" -> Str("Missing")
      [] OTHER -> Undefined

\* one data row of the Income Statement sheet (lines 224-320)
DataRow(data, item) ==
    LET n == Len(data.periods)
        bgColor == IF item.isTotal THEN COLORS.totalBg ELSE confidenceColor(item.confidence)
        fontColor == IF item.isTotal THEN COLORS.totalFont ELSE COLORS.none
        periodCells == [pi \in 1..n |-> <<3 + (pi - 1), PeriodCell(item, data.periods[pi])>>]
        growthCells ==
            [gi \in 1..(n - 1) |->
                <<3 + n + (gi - 1), GrowthCell(item, data.periods[gi], data.periods[gi + 1])>>]
    IN  ApplyWrites(EmptyRow,
            <<<<1, Cell(Str(""), "", bgColor, "")>>,
              <<2, Cell(Str(item.standardLabel), "", bgColor, fontColor)>>>>
            \o periodCells \o growthCells
            \o <<<<confColIdx(data), Cell(confLabels(item.confidence), "", bgColor, "")>>,
                 <<confColIdx(data) + 1, Cell(Str(item.notes), "", COLORS.lightGray, "")>>>>)

NeedsBanner_Always(item, lastCategory) == TRUE

NeedsBanner_Never(item, lastCategory) == FALSE

\* if (item.category !== lastCategory)
NeedsBanner(item, lastCategory) == item.category # lastCategory

BannerRow(data, item) ==
    [kind |-> "banner", item |-> 0, text |-> toUpperCase(item.category),
     fill |-> categoryColor(item.category),
     mergedTo |-> confColIdx(data) + 1, cells |-> EmptyRow]

\* the loop over data.lineItems: rows[i] is sheet row FirstDataRow + i - 1
RECURSIVE DataRows(_, _, _, _)
DataRows(data, k, lastCategory, rows) ==
    IF k > Len(data.lineItems) THEN rows
    ELSE LET item == data.lineItems[k]
             banner == NeedsBanner(item, lastCategory)
             withBanner == IF banner THEN Append(rows, BannerRow(data, item)) ELSE rows
             dataRow == [kind |-> "data", item |-> k, text |-> "", mergedTo |-> 0,
                         cells |-> DataRow(data, item)]
         IN  DataRows(data, k + 1, IF banner THEN item.category ELSE lastCategory,
                      Append(withBanner, dataRow))

FirstDataRow == 7

addIncomeStatementSheet(data) ==
    LET rows == DataRows(data, 1, "", <<>>)
    IN  [name |-> "Income Statement",
         totalCols |-> totalCols(data),
         title |-> data.companyName,
         header |-> HeaderRow(data),
         rows |-> rows,
         footerRow |-> FirstDataRow + Len(rows) + 1,
         footer |-> "Extraction Notes: " \o Text(data, "extractionNotes")]

\* one row of the Raw Data sheet (lines 364-374)
RawValueCell(val) == IF val = Null THEN Str("N/A") ELSE val

RawRow_StandardLabelOnly(data, item) ==
    LET n == Len(data.periods)
        valueCells ==
            [pi \in 1..n |->
                LET val == Lookup(item.values, data.periods[pi])
                IN  <<5 + (pi - 1),
                      Cell(RawValueCell(val), IF IsNumber(val) THEN "#,##0.0" ELSE "", "", "")>>]
    IN  ApplyWrites(EmptyRow,
            <<<<1, Cell(Str(item.category), "", "", "")>>,
              <<2, Cell(Str(item.standardLabel), "", "", "")>>,
              <<3, Cell(Str(item.standardLabel), "", "", "")>>,
              <<4, Cell(Str(toUpperCase(item.confidence)), "", "", "")>>>>
            \o valueCells
            \o <<<<5 + n, Cell(Str(item.notes), "", "", "")>>>>)

RawRow(data, item) ==
    LET n == Len(data.periods)
        valueCells ==
            [pi \in 1..n |->
                LET val == Lookup(item.values, data.periods[pi])
                IN  <<5 + (pi - 1),
                      Cell(RawValueCell(val), IF IsNumber(val) THEN "#,##0.0" ELSE "", "", "")>>]
    IN  ApplyWrites(EmptyRow,
            <<<<1, Cell(Str(item.category), "", "", "")>>,
              <<2, Cell(Str(item.label), "", "", "")>>,
              <<3, Cell(Str(item.standardLabel), "", "", "")>>,
              <<4, Cell(Str(toUpperCase(item.confidence)), "", "", "")>>>>
            \o valueCells
            \o <<<<5 + n, Cell(Str(item.notes), "", "", "")>>>>)

\* row 1 holds the headers; rows maps the sheet row 2 + idx to the cells of
\* line item idx (counted from 0)
addRawDataSheet(data) ==
    [name |-> "Raw Data",
     headers |-> <<"Category", "Original Label (from document)", "Standard Label",
                   "Confidence">> \o data.periods \o <<"Notes">>,
     rows |-> [r \in {2 + idx : idx \in 0..(Len(data.lineItems) - 1)} |->
                  RawRow(data, data.lineItems[r - 1])]]

\* data.lineItems.filter(i => i.confidence === level).length
RECURSIVE CountConfidence(_, _)
CountConfidence(lineItems, level) ==
    IF lineItems = <<>> THEN 0
    ELSE (IF lineItems[1].confidence = level THEN 1 ELSE 0)
         + CountConfidence(Tail(lineItems), level)

\* periods.join(', ')
RECURSIVE Join(_)
Join(strs) ==
    IF strs = <<>> THEN ""
    ELSE IF Len(strs) = 1 THEN strs[1]
    ELSE strs[1] \o ", " \o Join(Tail(strs))

Falsy(data, f) == f \notin data.has \/ data[f] = ""

\* the key/value table of the Extraction Report sheet (lines 403-418)
addNotesSheet(data) ==
    [name |-> "Extraction Report",
     metadata |->
        <<<<"Company", data.companyName>>,
          <<"Document Type", Text(data, "reportType")>>,
          <<"Document Title",
            IF Falsy(data, "documentTitle") THEN "Not specified" ELSE data.documentTitle>>,
          <<"Periods Extracted", Join(data.periods)>>,
          <<"Currency", Text(data, "currency")>>,
          <<"Units", Text(data, "unit")>>,
          <<"Total Line Items", ToString(Len(data.lineItems))>>,
          <<"High Confidence", ToString(CountConfidence(data.lineItems, "high"))>>,
          <<"Medium Confidence", ToString(CountConfidence(data.lineItems, "medium"))>>,
          <<"Low Confidence", ToString(CountConfidence(data.lineItems, "low"))>>,
          <<"Missing Data", ToString(CountConfidence(data.lineItems, "missing"))>>,
          <<"Extraction Notes", Text(data, "extractionNotes")>>,
          <<"Tool", "AI Research Portal - Financial Statement Extractor">>>>]

NoWorkbook == [sheets |-> <<>>]

generateFinancialExcel_ReversesItems(data) ==
    IF PeriodsThrows(data)
    THEN [threw |-> TRUE, workbook |-> NoWorkbook, data |-> data]
    ELSE [threw |-> FALSE,
          workbook |-> [sheets |-> <<addIncomeStatementSheet(data),
                                     addRawDataSheet(data),
                                     addNotesSheet(data)>>],
          data |-> [data EXCEPT !.lineItems =
                        [i \in 1..Len(@) |-> @[Len(@) + 1 - i]]]]

\* the three sheets in order; throws when data.periods is undefined.  The
\* field data is the argument as the call leaves it: the three sheet
\* functions read data.periods, data.lineItems and the text fields, copy the
\* periods (spread) and filter the line items into new arrays, and assign to
\* nothing reachable from data.
generateFinancialExcel(data) ==
    IF PeriodsThrows(data)
    THEN [threw |-> TRUE, workbook |-> NoWorkbook, data |-> data]
    ELSE [threw |-> FALSE,
          workbook |-> [sheets |-> <<addIncomeStatementSheet(data),
                                     addRawDataSheet(data),
                                     addNotesSheet(data)>>],
          data |-> data]

(***************************************************************************)
(* route.ts: POST /api/download-excel                                      *)
(***************************************************************************)
NoResponse == [status |-> 0, contentType |-> "", keys |-> {}, error |-> "", filename |-> ""]
JsonError(status, keys, error) ==
    [status |-> status, contentType |-> "application/json", keys |-> keys, error |-> error,
     filename |-> ""]
\* the binary response; filename is the one of its Content-Disposition header
XlsxResponse(filename) ==
    [status |-> 200,
     contentType |-> "application/vnd.openxmlformats-officedocument.spreadsheetml.sheet",
     keys |-> {}, error |-> "", filename |-> filename]

\* the characters of the class [a-zA-Z0-9_-]
SafeChars ==
    LET class == "abcdefghijklmnopqrstuvwxyzABCDEFGHIJKLMNOPQRSTUVWXYZ0123456789_-"
    IN  {SubSeq(class, i, i) : i \in 1..Len(class)}

RECURSIVE ReplaceUnsafe(_)
\* s.replace(/[^a-zA-Z0-9_-]/g, '_')
ReplaceUnsafe(s) ==
    IF s = "" THEN ""
    ELSE (IF SubSeq(s, 1, 1) \in SafeChars THEN SubSeq(s, 1, 1) ELSE "_")
            \o ReplaceUnsafe(SubSeq(s, 2, Len(s)))

SafeNameLength == 40

safeName_NoSlice(companyName) == ReplaceUnsafe(companyName)

\* data.companyName.replace(/[^a-zA-Z0-9_-]/g, '_').slice(0, 40)
safeName(companyName) == Slice(ReplaceUnsafe(companyName), 0, SafeNameLength)

FilenameSuffix == "_FinancialStatement.xlsx"

\* !data || !data.companyName || !data.lineItems
Rejected(data) ==
    data.kind = "null" \/ Falsy(data, "companyName") \/ "lineItems" \notin data.has

POST ==
    /\ response = NoResponse
    /\ IF request.kind = "invalid"
       THEN /\ response' = JsonError(400, {"error"}, "Invalid JSON body.")
            /\ UNCHANGED <<request, renderCalls, workbook>>
       ELSE IF Rejected(request)
       THEN /\ response' = JsonError(400, {"error"}, "Missing required financial data fields.")
            /\ UNCHANGED <<request, renderCalls, workbook>>
       ELSE LET result == generateFinancialExcel(request)
            IN  /\ renderCalls' = renderCalls + 1
                /\ request' = result.data
                /\ IF result.threw
                   THEN /\ response' = JsonError(500, {"error", "details"},
                                                 "Failed to generate Excel file.")
                        /\ UNCHANGED workbook
                   ELSE /\ response' =
                                XlsxResponse(safeName(request.companyName) \o FilenameSuffix)
                        /\ workbook' = result.workbook
    /\ UNCHANGED <<growthVars, uploadVars, fnVars, uiVars>>

(***************************************************************************)
(* Document text.  A text is kept run-length encoded, a sequence of runs   *)
(* [ch, n] (n >= 1, neighbouring runs of different characters), so that    *)
(* texts around the 80,000 and 100,000 character budgets can be sliced,    *)
(* searched and cleaned exactly.  The alphabet is "a" (any printable       *)
(* character), " ", "\n", "\r", "\t" and "\f" (a control character).       *)
(***************************************************************************)
Run(ch, n) == [ch |-> ch, n |-> n]

RECURSIVE Canon(_)
\* the encoding of the same text with empty runs dropped and equal neighbours merged
Canon(runs) ==
    IF runs = <<>> THEN <<>>
    ELSE LET h == Head(runs)
             t == Canon(Tail(runs))
         IN  IF h.n = 0 THEN t
             ELSE IF t # <<>> /\ Head(t).ch = h.ch
                  THEN <<Run(h.ch, h.n + Head(t).n)>> \o Tail(t)
                  ELSE <<h>> \o t

RECURSIVE TextLength(_)
\* text.length
TextLength(text) ==
    IF text = <<>> THEN 0 ELSE Head(text).n + TextLength(Tail(text))

RECURSIVE TextSlice(_, _)
\* text.slice(0, to)
TextSlice(text, to) ==
    IF text = <<>> \/ to <= 0 THEN <<>>
    ELSE IF Head(text).n <= to
         THEN <<Head(text)>> \o TextSlice(Tail(text), to - Head(text).n)
         ELSE <<Run(Head(text).ch, to)>>

\* text.lastIndexOf('\n\n'): the last two characters of the last run of two or
\* more newlines, -1 when there is none
TextLastIndexOfBreak(text) ==
    LET at == {i \in DOMAIN text : text[i].ch = "\n" /\ text[i].n >= 2}
    IN  IF at = {} THEN -1
        ELSE LET i == CHOOSE k \in at : \A j \in at : j <= k
             IN  TextLength(SubSeq(text, 1, i - 1)) + text[i].n - 2

\* characters String.prototype.trim removes, of the alphabet
Whitespace == {" ", "\n", "\r", "\t", "\f"}

RECURSIVE TrimStart(_)
TrimStart(text) ==
    IF text # <<>> /\ Head(text).ch \in Whitespace THEN TrimStart(Tail(text)) ELSE text

RECURSIVE TrimEnd(_)
TrimEnd(text) ==
    IF text # <<>> /\ text[Len(text)].ch \in Whitespace
    THEN TrimEnd(SubSeq(text, 1, Len(text) - 1)) ELSE text

\* text.trim()
TextTrim(text) == TrimEnd(TrimStart(text))

\* One replacement of cleanText over the whole text, by number:
\*   1  /\r\n/g -> "\n"      2  /\r/g -> "\n"      3  /\n{4,}/g -> "\n\n\n"
\*   4  control characters -> " "                 5  / {3,}/g -> "  "
ReplaceAll(step, text) ==
    Canon([i \in DOMAIN text |->
        CASE step = 1 -> IF text[i].ch = "\r" /\ i < Len(text) /\ text[i + 1].ch = "\n"
                         THEN Run("\r", text[i].n - 1) ELSE text[i]
          [] step = 2 -> IF text[i].ch = "\r" THEN Run("\n", text[i].n) ELSE text[i]
          [] step = 3 -> IF text[i].ch = "\n" /\ text[i].n >= 4 THEN Run("\n", 3) ELSE text[i]
          [] step = 4 -> IF text[i].ch = "\f" THEN Run(" ", text[i].n) ELSE text[i]
          [] step = 5 -> IF text[i].ch = " " /\ text[i].n >= 3 THEN Run(" ", 2) ELSE text[i]])

\* cleanText: the five replacements in order, then trim
cleanText(text) ==
    TextTrim(ReplaceAll(5, ReplaceAll(4, ReplaceAll(3, ReplaceAll(2, ReplaceAll(1, text))))))

MAX_CHARS == 100000

\* the cut both truncateText and parsePDF make in a text longer than maxChars
CutAtBoundary(text, maxChars) ==
    LET slice == TextSlice(text, maxChars)
        lastDoubleNewline == TextLastIndexOfBreak(slice)
    IN  IF 10 * lastDoubleNewline > 8 * maxChars
        THEN TextSlice(slice, lastDoubleNewline)
        ELSE slice

\* truncateText(text, maxChars); maxChars defaults to DefaultMaxChars
DefaultMaxChars == 80000

truncateText(text, maxChars) ==
    IF TextLength(text) <= maxChars THEN [text |-> text, truncated |-> FALSE]
    ELSE [text |-> CutAtBoundary(text, maxChars), truncated |-> TRUE]

\* A buffer is [readable, text]: whether pdf-parse can read it, and the text
\* it holds (data.text of pdf-parse, or the UTF-8 decoding of the bytes).
\* parsePDF rejects (threw) when pdf-parse does.
parsePDF(buffer) ==
    LET fullText == buffer.text
        truncated == TextLength(fullText) > MAX_CHARS
        text == IF truncated THEN CutAtBoundary(fullText, MAX_CHARS) ELSE fullText
    IN  [threw |-> ~buffer.readable,
         text |-> IF buffer.readable THEN cleanText(text) ELSE <<>>,
         truncated |-> buffer.readable /\ truncated,
         originalLength |-> IF buffer.readable THEN TextLength(fullText) ELSE 0]

parseTextFile(buffer) ==
    LET fullText == buffer.text
        truncated == TextLength(fullText) > MAX_CHARS
        text == IF truncated THEN TextSlice(fullText, MAX_CHARS) ELSE fullText
    IN  [threw |-> FALSE,
         text |-> cleanText(text),
         truncated |-> truncated,
         originalLength |-> TextLength(fullText)]

(***************************************************************************)
(* utils.ts, safeParseJSON.  The backquote cannot be written in a string   *)
(* of this language; it is written "~" throughout, so FENCE stands for the *)
(* three-backquote markdown fence.                                         *)
(***************************************************************************)
FENCE == "~~~"

RECURSIVE SkipSpace(_)
\* s without its leading whitespace (\s*)
SkipSpace(s) ==
    IF Len(s) > 0 /\ SubSeq(s, 1, 1) \in Whitespace
    THEN SkipSpace(SubSeq(s, 2, Len(s))) ELSE s

RECURSIVE SkipSpaceEnd(_)
\* s without its trailing whitespace
SkipSpaceEnd(s) ==
    IF Len(s) > 0 /\ SubSeq(s, Len(s), Len(s)) \in Whitespace
    THEN SkipSpaceEnd(SubSeq(s, 1, Len(s) - 1)) ELSE s

\* raw.replace(/^```(?:json)?\s*/i, '')
StripLeadingFence(raw) ==
    IF ~StartsWith(raw, FENCE) THEN raw
    ELSE LET rest == SubSeq(raw, Len(FENCE) + 1, Len(raw))
             word == SubSeq(rest, 1, 4)
         IN  IF word \in {"json", "JSON", "Json"}
             THEN SkipSpace(SubSeq(rest, 5, Len(rest)))
             ELSE SkipSpace(rest)

\* s.replace(/\s*```\s*$/, '')
StripTrailingFence(s) ==
    LET body == SkipSpaceEnd(s)
    IN  IF EndsWith(body, FENCE)
        THEN SkipSpaceEnd(SubSeq(body, 1, Len(body) - Len(FENCE)))
        ELSE s

\* the JSON texts of the model and the values JSON.parse gives for them;
\* every other text is a syntax error
JsonWithNotes == "{\"extractionNotes\":\"ok\"}"
JsonEmptyObject == "{}"
JsonNull == "null"

JSONParse(text) ==
    CASE text = JsonWithNotes ->
            [threw |-> FALSE,
             value |-> [kind |-> "object", has |-> {"extractionNotes"}, extractionNotes |-> "ok"]]
      [] text = JsonEmptyObject ->
            [threw |-> FALSE,
             value |-> [kind |-> "object", has |-> {}, extractionNotes |-> "undefined"]]
      [] text = JsonNull ->
            [threw |-> FALSE,
             value |-> [kind |-> "null", has |-> {}, extractionNotes |-> ""]]
      [] OTHER ->
            [threw |-> TRUE,
             value |-> [kind |-> "undefined", has |-> {}, extractionNotes |-> ""]]

safeParseJSON(raw) ==
    JSONParse(SkipSpaceEnd(SkipSpace(StripTrailingFence(StripLeadingFence(raw)))))

(***************************************************************************)
(* llm-extractor.ts.  The upstream is [apiKey, thrown, raw]: whether       *)
(* GROQ_API_KEY is set, the message of the error the SDK call throws ("" = *)
(* none), and the content of the reply.                                    *)
(***************************************************************************)
LLMErrors ==
    [keyNotSet |->
        "GROQ_API_KEY is not set. Get a free key at https://console.groq.com - no credit card needed.",
     empty |-> "Empty response from Groq API",
     financialParse |-> "Failed to parse financial extraction result: ",
     earningsParse |-> "Failed to parse earnings analysis result: "]
RawSliceLength == 300

\* new Groq({ apiKey }): the client is built with the SDK's default options.
\* groq-sdk re-sends a request that fails with a connection error or with
\* status 408, 409, 429 or >= 500, DefaultMaxRetries times (maxRetries, 2 when
\* the option is not given), before create() rejects.
DefaultMaxRetries == 2
Retried(thrown) ==
    \/ thrown = "Connection error."
    \/ \E status \in {"408", "409", "429", "500", "502", "503"} : StartsWith(thrown, status)
\* requests sent to the API by one create() against an upstream that answers
\* every request alike
Requests_create(llm) ==
    IF Retried(llm.thrown) THEN 1 + DefaultMaxRetries ELSE 1

NoValue == [kind |-> "undefined", has |-> {}, extractionNotes |-> ""]

\* the body shared by extractFinancialData and analyzeEarningsCall:
\* [threw, message, value, calls], calls = requests made to the API
CallLLM_WholeReply(llm, parsePrefix) ==
    IF ~llm.apiKey
    THEN [threw |-> TRUE, message |-> LLMErrors.keyNotSet, value |-> NoValue, calls |-> 0]
    ELSE IF llm.thrown # ""
    THEN [threw |-> TRUE, message |-> llm.thrown, value |-> NoValue,
          calls |-> Requests_create(llm)]
    ELSE IF llm.raw = ""
    THEN [threw |-> TRUE, message |-> LLMErrors.empty, value |-> NoValue, calls |-> 1]
    ELSE LET parsed == safeParseJSON(llm.raw)
         IN  IF parsed.threw
             THEN [threw |-> TRUE, message |-> parsePrefix \o llm.raw,
                   value |-> NoValue, calls |-> 1]
             ELSE [threw |-> FALSE, message |-> "", value |-> parsed.value, calls |-> 1]

CallLLM(llm, parsePrefix) ==
    IF ~llm.apiKey
    THEN [threw |-> TRUE, message |-> LLMErrors.keyNotSet, value |-> NoValue, calls |-> 0]
    ELSE IF llm.thrown # ""
    THEN [threw |-> TRUE, message |-> llm.thrown, value |-> NoValue,
          calls |-> Requests_create(llm)]
    ELSE IF llm.raw = ""
    THEN [threw |-> TRUE, message |-> LLMErrors.empty, value |-> NoValue, calls |-> 1]
    ELSE LET parsed == safeParseJSON(llm.raw)
         IN  IF parsed.threw
             THEN [threw |-> TRUE,
                   message |-> parsePrefix \o Slice(llm.raw, 0, RawSliceLength),
                   value |-> NoValue, calls |-> 1]
             ELSE [threw |-> FALSE, message |-> "", value |-> parsed.value, calls |-> 1]

extractFinancialData(llm) == CallLLM(llm, LLMErrors.financialParse)
analyzeEarningsCall(llm) == CallLLM(llm, LLMErrors.earningsParse)

\* String(err) of an Error
ErrorString(message) == "Error: " \o message

(***************************************************************************)
(* route.ts, POST /api/analyze-earnings and POST /api/extract-financial    *)
(***************************************************************************)
MAX_FILE_SIZE == 10 * 1024 * 1024
MinTextLength == 100

\* the messages the two handlers share (the sentence of tooLarge that gives the
\* file's size is left out), and details of the two errors thrown inside them
UploadMessages ==
    [invalidFormat |-> "Invalid request format. Please upload a file using multipart/form-data.",
     noFile |-> "No file provided. Please upload a PDF or TXT file.",
     tooLarge |-> "File too large. Maximum size is 10 MB.",
     unsupported |-> "Unsupported file format. Please upload a PDF (.pdf) or text (.txt) file.",
     apiKey |->
        "API key missing or invalid. Add GROQ_API_KEY to your .env.local. Get a free key at https://console.groq.com",
     rateLimit |-> "Groq rate limit reached. Wait 60 seconds and try again (free tier: 30 req/min).",
     unexpected |-> "An unexpected server error occurred. Please try again.",
     pdfParseError |-> "Error: Invalid PDF structure",
     nullNotesError |-> "TypeError: Cannot read properties of null (reading 'extractionNotes')",
     nameError |-> "TypeError: Cannot read properties of undefined (reading 'toLowerCase')"]

\* the messages in which the two handlers differ
EarningsMessages ==
    [corrupt |->
        "Failed to extract text from the document. The file may be corrupted, encrypted, or image-only.",
     unreadable |-> "Could not extract readable text from this document.",
     failed |-> "AI analysis failed. Please try again."]
FinancialMessages ==
    [corrupt |->
        "Failed to extract text from the document. The file may be corrupted, encrypted, or image-only (scanned PDF).",
     unreadable |->
        "Could not extract readable text from this document. If it is a scanned PDF, OCR is not yet supported.",
     failed |-> "AI extraction failed. Please try again."]

NoApiResponse ==
    [status |-> 0, keys |-> {}, error |-> "", details |-> "", type |-> "",
     data |-> NoValue, documentName |-> ""]

\* NextResponse.json({success: false, error, type}, {status})
ApiError(status, error, type) ==
    [status |-> status, keys |-> {"success", "error", "type"}, error |-> error,
     details |-> "", type |-> type, data |-> NoValue, documentName |-> ""]

\* NextResponse.json({success: false, error, details, type}, {status})
ApiErrorWithDetails(status, error, details, type) ==
    [status |-> status, keys |-> {"success", "error", "details", "type"}, error |-> error,
     details |-> details, type |-> type, data |-> NoValue, documentName |-> ""]

\* NextResponse.json({success: true, data, processingTime, documentName})
ApiSuccess(data, documentName) ==
    [status |-> 200, keys |-> {"success", "data", "processingTime", "documentName"},
     error |-> "", details |-> "", type |-> "", data |-> data, documentName |-> documentName]

isPDF(file) == file.type = "application/pdf" \/ EndsWith(toLowerCase(file.name), ".pdf")
isTXT(file) == file.type = "text/plain" \/ EndsWith(toLowerCase(file.name), ".txt")

\* errMsg.includes(...) tests of the catch block
isApiKeyError(errMsg) ==
    \/ Includes(errMsg, "GROQ_API_KEY")
    \/ Includes(errMsg, "Invalid API Key")
    \/ Includes(errMsg, "401")
    \/ Includes(errMsg, "authentication")

isRateLimit(errMsg) ==
    \/ Includes(errMsg, "429")
    \/ Includes(errMsg, "rate limit")
    \/ Includes(errMsg, "Rate limit")

\* Math.round(x / 1000)
RoundK(x) == (x + 500) \div 1000

TruncationMarker_Dropped(parsed) == ""

TruncationMarker(parsed) ==
    "[Document truncated: only first " \o ToString(RoundK(TextLength(parsed.text)))
        \o "K of " \o ToString(RoundK(parsed.originalLength)) \o "K characters analyzed] "

\* parsed = isPDF ? await parsePDF(buffer) : await parseTextFile(buffer)
ParseDocument(file) ==
    IF isPDF(file) THEN parsePDF(file.buffer) ELSE parseTextFile(file.buffer)

\* The handler body: the response, and the calls made to the text extractor
\* and to the LLM API on the way.  formData.get('file') is null, a File, or the
\* string of a form field that is not a file (hasFile: it is truthy).  A
\* string has no size, type or name: undefined > MAX_FILE_SIZE and
\* undefined === 'application/pdf' are false, file.name.toLowerCase() throws.  llm is the outcome of the handler's own
\* extraction function, called only when the text is readable.
HandleUpload(req, messages, llm) ==
    LET file == req.file
        parsed == ParseDocument(file)
        errMsg == ErrorString(llm.message)
        Out(resp, ext, calls) == [response |-> resp, extractorCalls |-> ext, llmCalls |-> calls]
    IN  IF ~req.formOk
        THEN Out(ApiError(400, UploadMessages.invalidFormat, "PARSE_ERROR"), 0, 0)
        ELSE IF ~req.hasFile
        THEN Out(ApiError(400, UploadMessages.noFile, "PARSE_ERROR"), 0, 0)
        ELSE IF file.kind = "string"
        THEN Out(ApiErrorWithDetails(500, UploadMessages.unexpected, UploadMessages.nameError, "UNKNOWN"),
                 0, 0)
        ELSE IF file.size > MAX_FILE_SIZE
        THEN Out(ApiError(413, UploadMessages.tooLarge, "FILE_TOO_LARGE"), 0, 0)
        ELSE IF ~isPDF(file) /\ ~isTXT(file)
        THEN Out(ApiError(415, UploadMessages.unsupported, "UNSUPPORTED_FORMAT"), 0, 0)
        ELSE IF parsed.threw
        THEN Out(ApiErrorWithDetails(422, messages.corrupt, UploadMessages.pdfParseError, "PARSE_ERROR"), 1, 0)
        ELSE IF TextLength(TextTrim(parsed.text)) < MinTextLength
        THEN Out(ApiError(422, messages.unreadable, "PARSE_ERROR"), 1, 0)
        ELSE IF llm.threw
        THEN Out(ApiErrorWithDetails(502,
                    IF isApiKeyError(errMsg) THEN UploadMessages.apiKey
                    ELSE IF isRateLimit(errMsg) THEN UploadMessages.rateLimit
                    ELSE messages.failed,
                    errMsg, "API_ERROR"), 1, llm.calls)
        ELSE IF ~parsed.truncated
        THEN Out(ApiSuccess(llm.value, file.name), 1, llm.calls)
        ELSE IF llm.value.kind = "null"
        THEN Out(ApiErrorWithDetails(500, UploadMessages.unexpected, UploadMessages.nullNotesError, "UNKNOWN"),
                 1, llm.calls)
        ELSE Out(ApiSuccess([kind |-> "object",
                             has |-> llm.value.has \cup {"extractionNotes"},
                             extractionNotes |->
                                 TruncationMarker(parsed) \o llm.value.extractionNotes],
                            file.name), 1, llm.calls)

UploadPending == apiResponse = NoApiResponse

POST_analyzeEarnings ==
    /\ UploadPending
    /\ upload.endpoint = "/api/analyze-earnings"
    /\ LET out == HandleUpload(upload, EarningsMessages, analyzeEarningsCall(upload.llm))
       IN  /\ apiResponse' = out.response
           /\ extractorCalls' = out.extractorCalls
           /\ llmCalls' = out.llmCalls
    /\ UNCHANGED <<upload, downloadVars, growthVars, fnVars, uiVars>>

POST_extractFinancial ==
    /\ UploadPending
    /\ upload.endpoint = "/api/extract-financial"
    /\ LET out == HandleUpload(upload, FinancialMessages, extractFinancialData(upload.llm))
       IN  /\ apiResponse' = out.response
           /\ extractorCalls' = out.extractorCalls
           /\ llmCalls' = out.llmCalls
    /\ UNCHANGED <<upload, downloadVars, growthVars, fnVars, uiVars>>

(***************************************************************************)
(* Upload requests.  A request is one scenario upload changed in one       *)
(* respect: the form, the file's size, its declared format, its contents,  *)
(* or the behaviour of the upstream API.                                   *)
(***************************************************************************)
Endpoints == {"/api/analyze-earnings", "/api/extract-financial"}

A(n) == <<Run("a", n)>>
Break == <<Run("\n", 2)>>

ScenarioUpload(e) ==
    [endpoint |-> e, formOk |-> TRUE, hasFile |-> TRUE,
     file |-> [kind |-> "File", size |-> 1024, type |-> "application/pdf",
               name |-> "report.pdf", buffer |-> [readable |-> TRUE, text |-> A(5000)]],
     llm |-> [apiKey |-> TRUE, thrown |-> "", raw |-> JsonWithNotes]]

\* texts below, at and above the readable minimum and the character budget,
\* with and without a paragraph break near the end of the budget
DocumentTexts ==
    {<<>>, <<Run(" ", 200)>>, A(99), A(100),
     <<Run(" ", 1)>> \o A(100) \o <<Run("\n", 1)>>,
     A(50) \o <<Run("\r", 1), Run("\n", 5)>> \o A(50),
     A(MAX_CHARS), A(MAX_CHARS + 1),
     A(90000) \o Break \o A(20000),
     A(80000) \o Break \o A(30000),
     A(80001) \o Break \o A(30000),
     A(70000) \o Break \o A(20000) \o Break \o A(20000),
     A(99998) \o Break \o A(10),
     A(99999) \o Break \o A(10)}

\* messages of the errors the SDK call throws ("" = it returns a reply)
UpstreamErrors ==
    {"", "401 Invalid API Key", "429 Rate limit reached for model", "500 Internal Server Error",
     "Connection error."}

\* contents of the reply
Replies ==
    LET x9 == "xxxxxxxxx"
        x10 == x9 \o "x"
        x100 == x10 \o x10 \o x10 \o x10 \o x10 \o x10 \o x10 \o x10 \o x10 \o x10
        x290 == x100 \o x100 \o x10 \o x10 \o x10 \o x10 \o x10 \o x10 \o x10 \o x10 \o x10
        x300 == x290 \o x10
    IN  {"", JsonWithNotes, FENCE \o "json\n" \o JsonWithNotes \o "\n" \o FENCE,
         JsonEmptyObject, JsonNull, "not json", " ",
         "Sorry, the document has 401 pages of tables", "The rate limit section is unclear",
         "{\"extractionNotes\":", FENCE \o "json\nnot json\n" \o FENCE,
         x290 \o x9, x300, x300 \o "y", x300 \o x300}

Uploads ==
    LET FileSizes == {0, 1024, MAX_FILE_SIZE - 1, MAX_FILE_SIZE, MAX_FILE_SIZE + 1}
        MimeTypes == {"application/pdf", "text/plain", "image/png", ""}
        FileNames == {"report.pdf", "REPORT.PDF", "notes.txt", "Notes.TXT", "scan.png", "report"}
        FormUploads ==
            {[ScenarioUpload(e) EXCEPT !.formOk = f, !.hasFile = h, !.file.kind = k] :
                e \in Endpoints, f \in BOOLEAN, h \in BOOLEAN, k \in {"File", "string"}}
        \* requests that fail several checks at once
        OrderUploads ==
            {[ScenarioUpload(e) EXCEPT !.formOk = f, !.hasFile = h, !.file.size = z,
                                       !.file.type = t, !.file.name = "upload",
                                       !.file.buffer = [readable |-> r, text |-> x]] :
                e \in Endpoints, f \in BOOLEAN, h \in BOOLEAN,
                z \in {1024, MAX_FILE_SIZE + 1}, t \in {"application/pdf", "image/png"},
                r \in BOOLEAN, x \in {A(99), A(5000)}}
        SizeUploads ==
            {[ScenarioUpload(e) EXCEPT !.file.size = z] : e \in Endpoints, z \in FileSizes}
        FormatUploads ==
            {[ScenarioUpload(e) EXCEPT !.file.type = t, !.file.name = n] :
                e \in Endpoints, t \in MimeTypes, n \in FileNames}
        DocumentUploads ==
            {[ScenarioUpload(e) EXCEPT !.file.type = t,
                                       !.file.buffer = [readable |-> r, text |-> x]] :
                e \in Endpoints, t \in {"application/pdf", "text/plain"},
                r \in BOOLEAN, x \in DocumentTexts}
        LLMUploads ==
            {[ScenarioUpload(e) EXCEPT !.llm = [apiKey |-> k, thrown |-> t, raw |-> r]] :
                e \in Endpoints, k \in BOOLEAN, t \in UpstreamErrors, r \in Replies}
        \* a truncated and an untruncated document, against each reply that parses
        TruncationUploads ==
            {[ScenarioUpload(e) EXCEPT !.file.buffer.text = x, !.llm.raw = r] :
                e \in Endpoints,
                x \in {A(5000), A(MAX_CHARS + 1), A(90000) \o Break \o A(20000)},
                r \in {JsonWithNotes, JsonEmptyObject, JsonNull}}
    IN  FormUploads \cup OrderUploads \cup SizeUploads \cup FormatUploads
            \cup DocumentUploads \cup LLMUploads \cup TruncationUploads

NoUpload == [ScenarioUpload("") EXCEPT !.formOk = FALSE, !.hasFile = FALSE]

UploadIdle ==
    upload = NoUpload /\ apiResponse = NoApiResponse /\ extractorCalls = 0 /\ llmCalls = 0

\* no pure function under check
NoOutput == [done |-> FALSE, value |-> [text |-> <<>>, truncated |-> FALSE, str |-> ""]]
FnIdle ==
    fnInput = [fn |-> "", text |-> <<>>, str |-> "", num |-> Null] /\ fnOutput = NoOutput

(***************************************************************************)
(* The browser.  A value that may be null (File | null, string | null) is  *)
(* a sequence of at most one element, null the empty one.                  *)
(***************************************************************************)
null == <<>>

\* useState initial values of FinancialPage ("financial") / EarningsPage ("earnings")
PageInitial(tool) ==
    [tool |-> tool, file |-> null, state |-> "idle", result |-> null, error |-> null]
\* useState initial values of FileUpload
WidgetInitial == [selectedFile |-> null, error |-> null]
\* useState initial values of FinancialResults; inFlight, attempts and
\* lastFailed record the fetches of handleDownload and how the last one ended
ResultsInitial ==
    [data |-> null, downloading |-> FALSE, downloadError |-> null, saved |-> null,
     inFlight |-> 0, attempts |-> 0, lastFailed |-> FALSE]
\* useState initial values of LoadingState, not mounted
LoadingInitial == [mounted |-> FALSE, steps |-> 0, currentStep |-> 0, progress |-> 0]

UiIdle ==
    /\ page = PageInitial("financial")
    /\ widget = WidgetInitial
    /\ inFlight = 0 /\ sent = 0 /\ clicks = 0
    /\ results = ResultsInitial
    /\ loading = LoadingInitial

(***************************************************************************)
(* Specification of the endpoint: one request in flight, handled once.     *)
(***************************************************************************)
Pending == [t |-> "pending", v |-> 0, d |-> 1, s |-> ""]

GrowthIdle == current = Null /\ prior = Null /\ growth = Pending

Init ==
    /\ UiIdle
    /\ request \in Requests
    /\ response = NoResponse
    /\ renderCalls = 0
    /\ workbook = NoWorkbook
    /\ GrowthIdle
    /\ UploadIdle
    /\ FnIdle

Next == POST

Spec == Init /\ [][Next]_vars

(***************************************************************************)
(* Specification of calcYoYGrowth as a pure function of its arguments.     *)
(***************************************************************************)
MaxAmount == 6
GrowthInputs ==
    {Null, Undefined, Dec(-1205), Dec(-1000)} \cup {Dec(k) : k \in (-MaxAmount)..MaxAmount}

DownloadIdle ==
    request = NullBody /\ response = NoResponse /\ renderCalls = 0 /\ workbook = NoWorkbook

GrowthInit ==
    /\ UiIdle
    /\ DownloadIdle
    /\ UploadIdle
    /\ FnIdle
    /\ current \in GrowthInputs
    /\ prior \in GrowthInputs
    /\ growth = Pending

CalcGrowth ==
    /\ growth = Pending
    /\ growth' = calcYoYGrowth(current, prior)
    /\ UNCHANGED <<downloadVars, current, prior, uploadVars, fnVars, uiVars>>

GrowthNext == CalcGrowth

GrowthSpec == GrowthInit /\ [][GrowthNext]_vars

(***************************************************************************)
(* Specification of the utility functions: one call of one function on one *)
(* argument.                                                               *)
(***************************************************************************)
\* texts below, at and above the budget b: without a paragraph break, with one
\* at and just after 80% of b, with one ending at b and one straddling b,
\* with two in the last fifth, and wrapped in whitespace
BudgetTexts(b) ==
    LET fifth == (8 * b) \div 10
    IN  {A(b - 1), A(b), A(b + 1), A(2 * b),
         A(fifth) \o Break \o A(b),
         A(fifth + 1) \o Break \o A(b),
         A(fifth - 1) \o <<Run("\n", 3)>> \o A(b),
         A(b - 2) \o Break \o A(10),
         A(b - 1) \o Break \o A(10),
         A(b \div 2) \o Break \o A(b),
         A(fifth + 10) \o Break \o A(100) \o Break \o A(b),
         A(fifth + 10) \o Break \o A(100),
         <<Run(" ", 1)>> \o A(100) \o <<Run("\n", 1)>>,
         <<Run(" ", 5)>> \o A(b)}

TextInputs == DocumentTexts \cup BudgetTexts(DefaultMaxChars) \cup BudgetTexts(MAX_CHARS)

TextFunctions == {"truncateText", "parsePDF", "parseTextFile"}

\* the categories of LineItemCategory, in other cases, and other strings
CategoryNames ==
    LineItemCategory
        \cup {toUpperCase(c) : c \in LineItemCategory}
        \cup {toLowerCase(c) : c \in LineItemCategory}
        \cup {"", "EBITDA", "Cost of Revenue", "Gross Income", "Income Tax Expense",
               "Net Revenue", "Financing", "Internet", "Taxes"}

\* the ten codes of the table, in upper, lower and mixed case, and other codes
CurrencyCodes ==
    LET table == {"USD", "EUR", "GBP", "JPY", "INR", "CAD", "AUD", "CHF", "CNY", "KRW"}
    IN  table \cup {toLowerCase(c) : c \in table}
            \cup {"Usd", "eUr", "XYZ", "xyz", "Btc", "", "US", "USDT", " USD", "$"}

\* growth values: null, zero, of either sign, halfway between two tenths,
\* rounding to zero, and not a number
PctInputs ==
    {Null, NaN} \cup {Rat(n, d) : n \in {-2050, -41, -5, -1, 0, 1, 5, 41, 2050}, d \in {1, 20, 100}}

\* a call: the function and its argument, a text, a string or a number
UtilInputs ==
    {[fn |-> f, text |-> x, str |-> "", num |-> Null] : f \in TextFunctions, x \in TextInputs}
        \cup {[fn |-> "categoryColor", text |-> <<>>, str |-> x, num |-> Null] :
                    x \in CategoryNames}
        \cup {[fn |-> "getCurrencySymbol", text |-> <<>>, str |-> x, num |-> Null] :
                    x \in CurrencyCodes}
        \cup {[fn |-> "formatPct", text |-> <<>>, str |-> "", num |-> x] : x \in PctInputs}

UtilInit ==
    /\ UiIdle
    /\ DownloadIdle
    /\ GrowthIdle
    /\ UploadIdle
    /\ fnInput \in UtilInputs
    /\ fnOutput = NoOutput

\* the call of function f returns value
Return(f, value) ==
    /\ fnInput.fn = f
    /\ ~fnOutput.done
    /\ fnOutput' = [done |-> TRUE, value |-> value]
    /\ UNCHANGED <<fnInput, downloadVars, growthVars, uploadVars, uiVars>>

\* the result of a text function, and a string result
TextResult(r) == [text |-> r.text, truncated |-> r.truncated, str |-> ""]
StrResult(x) == [text |-> <<>>, truncated |-> FALSE, str |-> x]

Call_truncateText ==
    Return("truncateText", TextResult(truncateText(fnInput.text, DefaultMaxChars)))
Call_parsePDF ==
    Return("parsePDF", TextResult(parsePDF([readable |-> TRUE, text |-> fnInput.text])))
Call_parseTextFile ==
    Return("parseTextFile", TextResult(parseTextFile([readable |-> TRUE, text |-> fnInput.text])))

Call_categoryColor == Return("categoryColor", StrResult(categoryColor(fnInput.str)))
Call_getCurrencySymbol == Return("getCurrencySymbol", StrResult(getCurrencySymbol(fnInput.str)))
Call_formatPct == Return("formatPct", StrResult(formatPct(fnInput.num)))

UtilNext ==
    \/ Call_truncateText
    \/ Call_parsePDF
    \/ Call_parseTextFile
    \/ Call_categoryColor
    \/ Call_getCurrencySymbol
    \/ Call_formatPct

UtilSpec == UtilInit /\ [][UtilNext]_vars

(***************************************************************************)
(* Specification of the upload endpoints: one upload, handled once by the  *)
(* endpoint it is sent to.                                                 *)
(***************************************************************************)
UploadInit ==
    /\ UiIdle
    /\ DownloadIdle
    /\ GrowthIdle
    /\ FnIdle
    /\ upload \in Uploads
    /\ apiResponse = NoApiResponse
    /\ extractorCalls = 0
    /\ llmCalls = 0

UploadNext == POST_analyzeEarnings \/ POST_extractFinancial

UploadSpec == UploadInit /\ [][UploadNext]_vars

(***************************************************************************)
(* FinancialPage (app/financial/page.tsx) and EarningsPage, each with its  *)
(* FileUpload widget.  The widget is rendered while state is not 'done';   *)
(* its dropzone is disabled while state is 'analyzing'.                    *)
(***************************************************************************)
ServerIdle == DownloadIdle /\ GrowthIdle /\ UploadIdle /\ FnIdle

MaxClicks == 3

\* what a drop or a file dialog hands to onDrop: the files the dropzone
\* accepted (type PDF or TXT, one file) and the ones it rejected
Drops ==
    LET File(n, z) == [name |-> n, size |-> z]
        Rejection(n, m) == [file |-> File(n, 1024), message |-> m]
    IN  {[acceptedFiles |-> <<File("report.pdf", 1024)>>, rejectedFiles |-> <<>>],
         [acceptedFiles |-> <<File("notes.txt", 2048)>>, rejectedFiles |-> <<>>],
         [acceptedFiles |-> <<File("annual.pdf", 10 * 1024 * 1024 + 1)>>, rejectedFiles |-> <<>>],
         [acceptedFiles |-> <<>>, rejectedFiles |-> <<>>],
         [acceptedFiles |-> <<>>,
          rejectedFiles |-> <<Rejection("scan.png", "File type must be application/pdf,.pdf,text/plain,.txt")>>],
         [acceptedFiles |-> <<>>, rejectedFiles |-> <<Rejection("scan.png", "")>>],
         [acceptedFiles |-> <<>>,
          rejectedFiles |-> <<Rejection("a.pdf", "Too many files"), Rejection("b.pdf", "Too many files")>>]}

\* FileUpload.onDrop
onDrop(drop) ==
    /\ page.state \notin {"done", "analyzing"}
    /\ LET maxSizeBytes == 10 * 1024 * 1024
           file == drop.acceptedFiles[1]
       IN  IF Len(drop.rejectedFiles) > 0
           THEN /\ widget' = [widget EXCEPT !.error =
                        <<IF drop.rejectedFiles[1].message # ""
                          THEN drop.rejectedFiles[1].message ELSE "File rejected">>]
                /\ UNCHANGED page
           ELSE IF Len(drop.acceptedFiles) = 0
           THEN /\ widget' = [widget EXCEPT !.error = null]
                /\ UNCHANGED page
           ELSE IF file.size > maxSizeBytes
           THEN /\ widget' = [widget EXCEPT !.error = <<"File too large. Max size is 10 MB.">>]
                /\ UNCHANGED page
           ELSE /\ widget' = [selectedFile |-> <<file>>, error |-> null]
                /\ page' = [page EXCEPT !.file = <<file>>]
    /\ UNCHANGED <<inFlight, sent, clicks, results, loading, serverVars>>

\* FileUpload.clearFile, the remove-file button shown with the selected file
clearFile ==
    /\ page.state # "done"
    /\ widget.selectedFile # null
    /\ widget' = [selectedFile |-> null, error |-> null]
    /\ UNCHANGED <<page, inFlight, sent, clicks, results, loading, serverVars>>

\* the Analyze button is rendered while state is neither 'done' nor
\* 'analyzing', and is disabled while the page holds no file
AnalyzeEnabled == page.state \notin {"done", "analyzing"} /\ page.file # null

\* handleAnalyze up to the fetch: one click, one request sent
handleAnalyze ==
    /\ AnalyzeEnabled
    /\ clicks < MaxClicks
    /\ page' = [page EXCEPT !.state = "analyzing", !.error = null, !.result = null]
    /\ clicks' = clicks + 1
    /\ sent' = sent + 1
    /\ inFlight' = inFlight + 1
    /\ UNCHANGED <<widget, results, loading, serverVars>>

\* s.replace(sub, by): the first occurrence only
ReplaceFirst(s, sub, by) ==
    LET at == {i \in 1..(Len(s) - Len(sub) + 1) : SubSeq(s, i, i + Len(sub) - 1) = sub}
    IN  IF at = {} THEN s
        ELSE LET i == CHOOSE k \in at : \A j \in at : k <= j
             IN  SubSeq(s, 1, i - 1) \o by \o SubSeq(s, i + Len(sub), Len(s))

\* what fetch and res.json() give the page: the body of a response of the
\* page's endpoint, or a rejection (the network failed, the body is no JSON)
PageResponses ==
    LET Body(r) == [rejected |-> FALSE, success |-> "data" \in r.keys,
                    error |-> r.error, data |-> r.data]
        NoBody == [rejected |-> TRUE, success |-> FALSE, error |-> "", data |-> NoValue]
        \* formData.append('file', file): a form with a File
        Sent(endpoint) ==
            {x \in Uploads : /\ x.endpoint = endpoint
                             /\ x.formOk /\ x.hasFile /\ x.file.kind = "File"}
    IN  [tool \in {"financial", "earnings"} |->
            {NoBody} \cup
            IF tool = "financial"
            THEN {Body(HandleUpload(u, FinancialMessages, extractFinancialData(u.llm)).response) :
                    u \in Sent("/api/extract-financial")}
            ELSE {Body(HandleUpload(u, EarningsMessages, analyzeEarningsCall(u.llm)).response) :
                    u \in Sent("/api/analyze-earnings")}]

\* handleAnalyze from the return of the fetch on
FetchSettles(res) ==
    /\ inFlight > 0
    /\ inFlight' = inFlight - 1
    /\ IF ~res.rejected /\ res.success
       THEN /\ page' = [page EXCEPT !.state = "done",
                            !.result = IF res.data.kind = "null" THEN null ELSE <<res.data>>]
            /\ widget' = WidgetInitial
       ELSE LET fallback == IF page.tool = "financial" THEN "Extraction failed"
                            ELSE "Analysis failed"
                thrown == IF res.rejected THEN "TypeError: Failed to fetch"
                          ELSE "Error: " \o (IF res.error # "" THEN res.error ELSE fallback)
            IN  /\ page' = [page EXCEPT !.state = "error",
                                !.error = <<ReplaceFirst(thrown, "Error: ", "")>>]
                /\ UNCHANGED widget
    /\ UNCHANGED <<sent, clicks, results, loading, serverVars>>

\* reset: "Try again with a different document" of the error panel, and
\* "Analyze another document" above the results, which are rendered when
\* state is 'done' and result is not null
reset ==
    /\ page.state = "error" \/ (page.state = "done" /\ page.result # null)
    /\ page' = PageInitial(page.tool)
    /\ UNCHANGED <<widget, inFlight, sent, clicks, results, loading, serverVars>>

PageInit ==
    /\ ServerIdle
    /\ page \in {PageInitial(tool) : tool \in {"financial", "earnings"}}
    /\ widget = WidgetInitial
    /\ inFlight = 0 /\ sent = 0 /\ clicks = 0
    /\ results = ResultsInitial
    /\ loading = LoadingInitial

PageNext ==
    \/ \E drop \in Drops : onDrop(drop)
    \/ clearFile
    \/ handleAnalyze
    \/ \E res \in PageResponses[page.tool] : FetchSettles(res)
    \/ reset

PageSpec == PageInit /\ [][PageNext]_vars

(***************************************************************************)
(* FinancialResults.tsx: the download buttons.  results holds the state of *)
(* one mounted component: the record it shows (data), downloading and      *)
(* downloadError, the name of the file last saved, and three counters of   *)
(* handleDownload: requests that have not settled (inFlight), calls        *)
(* (attempts) and whether the call that settled last threw (lastFailed).   *)
(***************************************************************************)
MaxDownloads == 3

\* the records a mounted component shows: it renders data.lineItems
Shown ==
    {d \in ShapeRequests \cup TextRequests \cup NameRequests \cup TotalRequests :
        {"companyName", "lineItems", "periods", "currency"} \subseteq d.has}

\* status of POST /api/download-excel for the body JSON.stringify(data)
DownloadStatus(data) ==
    IF Rejected(data) THEN 400
    ELSE IF generateFinancialExcel(data).threw THEN 500 ELSE 200

\* how the awaits of handleDownload end: fetch rejects, the response arrives,
\* or the response arrives and res.blob() rejects; the route also answers 500
\* when writing the workbook fails
DownloadOutcomes(data) ==
    {[kind |-> "network", status |-> 0],
     [kind |-> "response", status |-> DownloadStatus(data)],
     [kind |-> "response", status |-> 500],
     [kind |-> "body", status |-> DownloadStatus(data)]}

\* String(e) of what the try block throws, "" when it throws nothing
DownloadThrown(res) ==
    IF res.kind = "network" THEN "TypeError: Failed to fetch"
    ELSE IF res.status = 400 THEN "Error: Server error: 400"
    ELSE IF res.status = 500 THEN "Error: Server error: 500"
    ELSE IF res.kind = "body" THEN "TypeError: Failed to fetch"
    ELSE ""

RECURSIVE ReplaceNonAlnum(_)
\* s.replace(/[^a-zA-Z0-9]/g, '_')
ReplaceNonAlnum(s) ==
    IF s = "" THEN ""
    ELSE (IF SubSeq(s, 1, 1) \in SafeChars \ {"_", "-"} THEN SubSeq(s, 1, 1) ELSE "_")
            \o ReplaceNonAlnum(SubSeq(s, 2, Len(s)))

\* a.download
DownloadName(data) == ReplaceNonAlnum(data.companyName) \o FilenameSuffix

\* a click on either download button; both are disabled while downloading
handleDownload ==
    /\ results.data # null
    /\ ~results.downloading
    /\ results.attempts < MaxDownloads
    /\ results' = [results EXCEPT !.downloading = TRUE, !.downloadError = null,
                                  !.inFlight = @ + 1, !.attempts = @ + 1]
    /\ UNCHANGED <<serverVars, pageVars, loading>>

DownloadSettles_NoFinally(res) ==
    /\ results.inFlight > 0
    /\ LET thrown == DownloadThrown(res)
       IN  results' =
             [results EXCEPT
                !.saved = IF thrown = "" THEN <<DownloadName(results.data[1])>> ELSE @,
                !.downloadError = IF thrown = "" THEN @ ELSE <<thrown>>,
                !.downloading = IF thrown = "" THEN FALSE ELSE @,
                !.inFlight = @ - 1,
                !.lastFailed = thrown # ""]
    /\ UNCHANGED <<serverVars, pageVars, loading>>

\* the continuation of handleDownload after its awaits: try, catch, finally
DownloadSettles(res) ==
    /\ results.inFlight > 0
    /\ LET thrown == DownloadThrown(res)
       IN  results' =
             [results EXCEPT
                !.saved = IF thrown = "" THEN <<DownloadName(results.data[1])>> ELSE @,
                !.downloadError = IF thrown = "" THEN @ ELSE <<thrown>>,
                !.downloading = FALSE,
                !.inFlight = @ - 1,
                !.lastFailed = thrown # ""]
    /\ UNCHANGED <<serverVars, pageVars, loading>>

ResultsInit ==
    /\ ServerIdle
    /\ page = PageInitial("financial")
    /\ widget = WidgetInitial
    /\ inFlight = 0 /\ sent = 0 /\ clicks = 0
    /\ results \in {[ResultsInitial EXCEPT !.data = <<d>>] : d \in Shown}
    /\ loading = LoadingInitial

ResultsNext ==
    \/ handleDownload
    \/ \E res \in DownloadOutcomes(results.data[1]) : DownloadSettles(res)

ResultsSpec == ResultsInit /\ [][ResultsNext]_vars

(***************************************************************************)
(* FinancialResults.tsx: the table body.                                   *)
(***************************************************************************)
RECURSIVE categories(_, _)
\* [...new Set(data.lineItems.map(i => i.category))]: a Set keeps insertion order
categories(items, seen) ==
    IF items = <<>> THEN <<>>
    ELSE IF items[1].category \in seen THEN categories(Tail(items), seen)
    ELSE <<items[1].category>> \o categories(Tail(items), seen \cup {items[1].category})

RECURSIVE groupedItems(_, _, _)
\* data.lineItems.filter(i => i.category === cat), as indices into lineItems from k on
groupedItems(items, cat, k) ==
    IF k > Len(items) THEN <<>>
    ELSE (IF items[k].category = cat THEN <<k>> ELSE <<>>) \o groupedItems(items, cat, k + 1)

\* one category of the table: its header row (the span has class uppercase),
\* then the rows of groupedItems[category]
TableGroup(items, category) ==
    LET group == groupedItems(items, category, 1)
    IN  <<[kind |-> "banner", item |-> 0, text |-> toUpperCase(category)]>>
            \o [i \in 1..Len(group) |-> [kind |-> "data", item |-> group[i], text |-> ""]]

RECURSIVE TableBody(_, _)
\* categories.map(category => <>header row, line item rows</>)
TableBody(items, cats) ==
    IF cats = <<>> THEN <<>>
    ELSE TableGroup(items, cats[1]) \o TableBody(items, Tail(cats))

(***************************************************************************)
(* LoadingState.tsx: two interval timers started by the effect and cleared *)
(* by its cleanup.  loading.steps is steps.length.                         *)
(***************************************************************************)
ProgressCap == 92

\* FINANCIAL_STEPS.length, EARNINGS_STEPS.length
StepsLength(toolType) == IF toolType = "financial" THEN 8 ELSE 9

\* the page renders <LoadingState toolType=... /> while state === 'analyzing'
Mount(toolType) ==
    /\ ~loading.mounted
    /\ loading' = [mounted |-> TRUE, steps |-> StepsLength(toolType),
                   currentStep |-> 0, progress |-> 0]
    /\ UNCHANGED <<serverVars, pageVars, results>>

\* the effect's cleanup; the state of the component is discarded with it
Unmount ==
    /\ loading.mounted
    /\ loading' = LoadingInitial
    /\ UNCHANGED <<serverVars, pageVars, results>>

\* prev => (prev < steps.length - 1 ? prev + 1 : prev)
NextStep(prev, length) == IF prev < length - 1 THEN prev + 1 ELSE prev

NextProgress_To100(prev) == IF prev < 100 THEN prev + 1 ELSE prev

\* prev => (prev < 92 ? prev + 1 : prev)
NextProgress(prev) == IF prev < ProgressCap THEN prev + 1 ELSE prev

\* the callback of timer
StepTick ==
    /\ loading.mounted
    /\ loading' = [loading EXCEPT !.currentStep = NextStep(@, loading.steps)]
    /\ UNCHANGED <<serverVars, pageVars, results>>

\* the callback of progressTimer
ProgressTick ==
    /\ loading.mounted
    /\ loading' = [loading EXCEPT !.progress = NextProgress(@)]
    /\ UNCHANGED <<serverVars, pageVars, results>>

LoadingInit ==
    /\ ServerIdle
    /\ page \in {PageInitial(tool) : tool \in {"financial", "earnings"}}
    /\ widget = WidgetInitial
    /\ inFlight = 0 /\ sent = 0 /\ clicks = 0
    /\ results = ResultsInitial
    /\ loading = LoadingInitial

LoadingNext ==
    \/ Mount(page.tool)
    \/ StepTick
    \/ ProgressTick
    \/ Unmount

\* an interval timer that is not cleared keeps firing
LoadingSpec ==
    LoadingInit /\ [][LoadingNext]_vars /\ WF_vars(StepTick) /\ WF_vars(ProgressTick)

(***************************************************************************)
(* Properties.                                                             *)
(***************************************************************************)
Responded == response # NoResponse
Produced == response.status = 200
Income == workbook.sheets[1]
Raw == workbook.sheets[2]
Report == workbook.sheets[3]
NumPeriods == Len(request.periods)
Items == request.lineItems
Missing(val) == val = Null \/ val = Undefined

\* the index in Income.rows of the data row of line item k
DataRowIndex(k) ==
    CHOOSE j \in 1..Len(Income.rows) : Income.rows[j].kind = "data" /\ Income.rows[j].item = k
IncomeCells(k) == Income.rows[DataRowIndex(k)].cells

LacksRequiredField == request.kind = "object" /\ request.has # RequiredFields

\* C1: every request whose record lacks a required field is answered with a
\* 4xx status and without the renderer being invoked (never a 5xx).
C1_IncompleteRecordRejected ==
    (Responded /\ LacksRequiredField)
        => (response.status \in 400..499 /\ renderCalls = 0)

\* C2: for every line item and period whose value is missing (null or key
\* absent) the period cell shows "N/A" in the Income Statement sheet and in the
\* Raw Data sheet.
C2_MissingValueIsNA ==
    Produced =>
        \A k \in 1..Len(Items) : \A pi \in 1..NumPeriods :
            Missing(Lookup(Items[k].values, request.periods[pi]))
                => /\ IncomeCells(k)[3 + (pi - 1)].value = Str("N/A")
                   /\ Raw.rows[k + 1][5 + (pi - 1)].value = Str("N/A")

\* value = (cur - pri) / |pri|, as an equation between exact rationals
IsGrowthRatio(value, cur, pri) ==
    /\ IsNumber(value)
    /\ value.d > 0
    /\ value.v * cur.d * Abs(pri.v) = (cur.v * pri.d - pri.v * cur.d) * value.d

\* C3: the growth cell of an adjacent pair shows "N/A" whenever either value is
\* missing (null or absent) or the prior value is zero, and otherwise holds the
\* growth of the current value over the prior value.
C3_GrowthCellNAOrGrowth ==
    Produced =>
        \A k \in 1..Len(Items) : \A gi \in 1..(NumPeriods - 1) :
            LET cur == Lookup(Items[k].values, request.periods[gi])
                pri == Lookup(Items[k].values, request.periods[gi + 1])
                cell == IncomeCells(k)[3 + NumPeriods + (gi - 1)]
            IN  IF Missing(cur) \/ Missing(pri) \/ IsZero(pri)
                THEN cell.value = Str("N/A")
                ELSE IsGrowthRatio(cell.value, cur, pri)

\* C4: calcYoYGrowth(current, prior) is null exactly when current is null,
\* prior is null or prior is 0; for numbers with prior # 0 it is
\* (current - prior) / |prior| * 100, whose sign is the sign of current - prior.
C4_GrowthLaw ==
    growth # Pending =>
        /\ (growth = Null) <=> (current = Null \/ prior = Null \/ IsZero(prior))
        /\ (IsNumber(current) /\ IsNumber(prior) /\ ~IsZero(prior)) =>
              /\ IsNumber(growth)
              /\ growth.d > 0
              /\ growth.v * current.d * Abs(prior.v)
                    = (current.v * prior.d - prior.v * current.d) * 100 * growth.d
              /\ Sign(growth.v) = Sign(current.v * prior.d - prior.v * current.d)

C4_Witness ==
    /\ growth # Pending
    /\ IsNumber(current) /\ IsNumber(prior)
    /\ prior.v < 0 /\ current.v > prior.v
    /\ IsNumber(growth) /\ growth.v > 0

ScenarioHandled == request = ScenarioData /\ Produced
ScenarioGrowthCell == IncomeCells(1)[3 + 2]

\* C5 (as stated): in the end-to-end scenario (FY2023 = -120.5, FY2022 = -100.0)
\* the growth cell displays +20.5%.
C5_ScenarioShowsPlus ==
    ScenarioHandled => PercentDisplay(ScenarioGrowthCell) = [sign |-> "+", tenths |-> 205]

\* C5 (amended): in the end-to-end scenario the growth cell displays -20.5%,
\* the value (-120.5 - -100.0) / |-100.0| * 100 = -20.5.
C5_ScenarioShowsMinus ==
    ScenarioHandled =>
        /\ ScenarioGrowthCell.numFmt = "+0.0%;-0.0%;0.0%"
        /\ PercentDisplay(ScenarioGrowthCell) = [sign |-> "-", tenths |-> 205]

C5_Witness == ScenarioHandled /\ IsNumber(ScenarioGrowthCell.value)

\* the number shown in the Extraction Report row with the given key
ReportValue(key) ==
    LET row == CHOOSE i \in 1..Len(Report.metadata) : Report.metadata[i][1] = key
    IN  Report.metadata[row][2]
ShownCount(key) == CHOOSE n \in 0..(2 * MaxItems + 2) : ToString(n) = ReportValue(key)

\* C6: in every workbook produced from a record the endpoint accepts, the four
\* confidence counts of the Extraction Report sum to Total Line Items, the
\* number of line items.
C6_ConfidenceCountsSum ==
    Produced =>
        /\ ShownCount("High Confidence") + ShownCount("Medium Confidence")
             + ShownCount("Low Confidence") + ShownCount("Missing Data")
               = ShownCount("Total Line Items")
        /\ ShownCount("Total Line Items") = Len(Items)

\* line item k starts a run of consecutive items of one category
StartsRun(k) == k = 1 \/ Items[k].category # Items[k - 1].category
Banners == {j \in 1..Len(Income.rows) : Income.rows[j].kind = "banner"}

\* C7: a banner row stands immediately before a line item's row exactly when
\* the item's category differs from the preceding item's (always for the first
\* item); every banner is followed by the item it announces, and there are as
\* many banners as runs of consecutive items of one category.
C7_BannerOnCategoryChange ==
    Produced =>
        /\ \A k \in 1..Len(Items) :
              LET j == DataRowIndex(k)
              IN  (j > 1 /\ Income.rows[j - 1].kind = "banner") <=> StartsRun(k)
        /\ \A j \in Banners :
              /\ j < Len(Income.rows)
              /\ Income.rows[j + 1].kind = "data"
              /\ Income.rows[j].text = toUpperCase(Items[Income.rows[j + 1].item].category)
        /\ Cardinality(Banners) = Cardinality({k \in 1..Len(Items) : StartsRun(k)})
        /\ Len(Income.rows) = Len(Items) + Cardinality(Banners)

C7_Witness ==
    /\ Produced
    /\ Len(Items) = 3
    /\ Items[1].category = Items[2].category
    /\ Items[2].category # Items[3].category
    /\ Cardinality(Banners) = 2

\* the banner texts of the sheet, top to bottom
RECURSIVE BannerTexts(_)
BannerTexts(rows) ==
    IF rows = <<>> THEN <<>>
    ELSE (IF rows[1].kind = "banner" THEN <<rows[1].text>> ELSE <<>>)
         \o BannerTexts(Tail(rows))

\* the distinct categories of the items, in order of first occurrence
RECURSIVE FirstOccurrences(_, _)
FirstOccurrences(items, seen) ==
    IF items = <<>> THEN <<>>
    ELSE IF items[1].category \in seen THEN FirstOccurrences(Tail(items), seen)
    ELSE <<toUpperCase(items[1].category)>>
         \o FirstOccurrences(Tail(items), seen \cup {items[1].category})

NoRepeats(seq) == \A i, j \in 1..Len(seq) : seq[i] = seq[j] => i = j

\* items of one category are contiguous in the list
Contiguous(items) ==
    \A i, j \in 1..Len(items) :
        (i < j /\ items[i].category = items[j].category)
            => \A m \in i..j : items[m].category = items[i].category

\* C8 (as stated): for every list of line items the banners are the distinct
\* categories in order of first occurrence, none appearing twice.
C8_BannersAreFirstOccurrences ==
    Produced =>
        /\ BannerTexts(Income.rows) = FirstOccurrences(Items, {})
        /\ NoRepeats(BannerTexts(Income.rows))

\* C8 (amended): for every list in which the items of each category are
\* contiguous, the banners are the distinct categories in order of first
\* occurrence, none appearing twice.
C8_ContiguousBannersAreFirstOccurrences ==
    (Produced /\ Contiguous(Items)) =>
        /\ BannerTexts(Income.rows) = FirstOccurrences(Items, {})
        /\ NoRepeats(BannerTexts(Income.rows))

C8_Witness ==
    /\ Produced
    /\ Len(Items) = 3
    /\ Contiguous(Items)
    /\ Len(BannerTexts(Income.rows)) = 2

\* the header text the sheet gives period i and the pair (i, i + 1)
PeriodHeader(i) ==
    request.periods[i] \o "\n(" \o getCurrencySymbol(Text(request, "currency")) \o " "
        \o Text(request, "unit") \o ")"
YoYHeader(i) == "YoY\n" \o request.periods[i] \o "/" \o request.periods[i + 1]

\* C9: with n >= 1 periods the grid has exactly 2 + n + (n - 1) + 2 columns:
\* Category, Line Item, the n periods in order, the n - 1 YoY pairs in order,
\* Confidence, Notes; every data row has cells in exactly these columns.
C9_ColumnLayout ==
    (Produced /\ NumPeriods >= 1) =>
        LET n == NumPeriods
            h == Income.header
        IN  /\ DOMAIN h = 1..(2 + n + (n - 1) + 2)
            /\ Income.totalCols = 2 + n + (n - 1) + 2
            /\ h[1].value = Str("Category")
            /\ h[2].value = Str("Line Item")
            /\ \A i \in 1..n : h[2 + i].value = Str(PeriodHeader(i))
            /\ \A i \in 1..(n - 1) : h[2 + n + i].value = Str(YoYHeader(i))
            /\ h[2 + n + (n - 1) + 1].value = Str("Confidence")
            /\ h[2 + n + (n - 1) + 2].value = Str("Notes")
            /\ \A k \in 1..Len(Items) : DOMAIN IncomeCells(k) = DOMAIN h

C9_Witness ==
    /\ Produced
    /\ NumPeriods = 1
    /\ Len(Items) = 1
    /\ DOMAIN Income.header = 1..5

StructurallyValid == request.kind = "object" /\ request.has = RequiredFields

\* C10: every structurally valid record (zero line items, a single period and
\* empty free-text fields included) is answered with a workbook, status 200.
C10_ValidRecordRendered ==
    (Responded /\ StructurallyValid) => (response.status = 200 /\ renderCalls = 1)

(***************************************************************************)
(* Upload endpoints                                                        *)
(***************************************************************************)
UploadResponded == apiResponse # NoApiResponse
\* the request reached the LLM step and the step failed
UpstreamFailed == UploadResponded /\ apiResponse.status = 502

\* the three upstream failure kinds, read off the upstream itself
KeyFailure == ~upload.llm.apiKey \/ upload.llm.thrown = "401 Invalid API Key"
RateLimited == upload.llm.apiKey /\ upload.llm.thrown = "429 Rate limit reached for model"
ParseFailure ==
    /\ upload.llm.apiKey
    /\ upload.llm.thrown = ""
    /\ upload.llm.raw # ""
    /\ safeParseJSON(upload.llm.raw).threw

\* C11: an upstream failure of kind API key gets the API-key message, one of
\* kind rate limit gets the rate-limit message, and a reply that fails to
\* parse gets neither of the two, whatever text the reply contains.
C11_UpstreamFailuresDistinguished ==
    UpstreamFailed =>
        /\ KeyFailure => apiResponse.error = UploadMessages.apiKey
        /\ RateLimited => apiResponse.error = UploadMessages.rateLimit
        /\ ParseFailure => apiResponse.error \notin {UploadMessages.apiKey, UploadMessages.rateLimit}

ErrorTypes == {"FILE_TOO_LARGE", "UNSUPPORTED_FORMAT", "API_ERROR", "PARSE_ERROR", "UNKNOWN"}

\* an error response of the upload endpoints carries a message and a category tag
UploadErrorsTagged ==
    (UploadResponded /\ apiResponse.status >= 400) =>
        /\ {"error", "type"} \subseteq apiResponse.keys
        /\ apiResponse.error # ""
        /\ apiResponse.type \in ErrorTypes

\* the same of the download endpoint, whose body has no type field to read
DownloadErrorsTagged ==
    (Responded /\ response.status >= 400) =>
        /\ {"error", "type"} \subseteq response.keys
        /\ response.error # ""

\* C12: every error response of every endpoint carries a human-readable
\* message (error) and a machine-readable category tag (type) out of the five.
C12_ErrorResponsesTagged == UploadErrorsTagged /\ DownloadErrorsTagged

(***************************************************************************)
(* Utility functions                                                       *)
(***************************************************************************)
Returned(f) == fnOutput.done /\ fnInput.fn = f

\* the character budget of a text function
Budget(f) == IF f = "truncateText" THEN DefaultMaxChars ELSE MAX_CHARS

\* the positions k < budget - 1 at which text has a paragraph break "\n\n"
\* wholly inside its first budget characters
BreaksWithin(text, budget) ==
    UNION {LET start == TextLength(SubSeq(text, 1, i - 1))
           IN  {k \in start..(start + text[i].n - 2) : k + 2 <= budget} :
           i \in {j \in DOMAIN text : text[j].ch = "\n" /\ text[j].n >= 2}}

\* where the stated rule cuts a text longer than budget
StatedCut(text, budget) ==
    LET breaks == BreaksWithin(text, budget)
        last == CHOOSE k \in breaks : \A j \in breaks : j <= k
    IN  IF breaks # {} /\ 10 * last > 8 * budget THEN last ELSE budget

TruncationContract(f) ==
    Returned(f) =>
        LET text == fnInput.text
            out == fnOutput.value
        IN  IF TextLength(text) <= Budget(f)
            THEN out.text = text /\ ~out.truncated
            ELSE /\ out.truncated
                 /\ TextLength(out.text) <= Budget(f)
                 /\ out.text = TextSlice(text, StatedCut(text, Budget(f)))

\* C13: parsePDF, parseTextFile and truncateText return a text within the
\* budget unchanged and not truncated; a longer one truncated, as the prefix
\* that ends at the last paragraph break inside the budget when that break
\* lies in the last 20% of the budget, and at the budget otherwise.
C13_TruncationAtParagraphBoundary == \A f \in TextFunctions : TruncationContract(f)

(***************************************************************************)
(* Raw Data sheet                                                          *)
(***************************************************************************)
\* C14: the Raw Data sheet has one row per line item, item idx (from 0) in
\* row idx + 2 and nothing else below the header; the original-label cell
\* (column 2) holds the item's label and the standard-label cell (column 3)
\* its standardLabel.
C14_RawDataShowsBothLabels ==
    Produced =>
        /\ DOMAIN Raw.rows = {idx + 2 : idx \in 0..(Len(Items) - 1)}
        /\ \A idx \in 0..(Len(Items) - 1) :
                /\ Raw.rows[idx + 2][2].value = Str(Items[idx + 1].label)
                /\ Raw.rows[idx + 2][3].value = Str(Items[idx + 1].standardLabel)

\* a sheet of several items, one with equal labels and one with different ones
C14_Witness ==
    /\ Produced
    /\ Len(Items) >= 2
    /\ \E k \in 1..Len(Items) : Items[k].label = Items[k].standardLabel
    /\ \E k \in 1..Len(Items) : Items[k].label # Items[k].standardLabel

(***************************************************************************)
(* The renderer and its input                                              *)
(***************************************************************************)
\* C15: a call of generateFinancialExcel, whether it returns or throws,
\* leaves the record it was given as it was: every field, every line item
\* and every values map.
C15_RenderLeavesInputUnchanged ==
    [][renderCalls' = renderCalls + 1 => request' = request]_vars

\* the renderer has run on a record of several different line items
C15_Witness ==
    /\ renderCalls = 1
    /\ Produced
    /\ Len(Items) >= 2
    /\ Items[1] # Items[2]

(***************************************************************************)
(* Colours, symbols and percentages                                        *)
(***************************************************************************)
\* the tests of categoryColor in their stated order: the words each looks
\* for and the colour it gives
ColorTests ==
    <<[words |-> {"revenue"}, color |-> COLORS.catRevenue],
      [words |-> {"cost"}, color |-> COLORS.catCost],
      [words |-> {"gross"}, color |-> COLORS.catProfit],
      [words |-> {"expense"}, color |-> COLORS.catExpense],
      [words |-> {"income", "ebit"}, color |-> COLORS.catIncome],
      [words |-> {"tax", "net"}, color |-> COLORS.catTax]>>

\* test i matches the category: one of its words occurs in it, in any case
TestMatches(i, category) ==
    \E w \in ColorTests[i].words : Includes(toLowerCase(category), w)

\* C16: categoryColor gives the colour of the first test that matches, in the
\* order revenue, cost, gross, expense, income-or-ebit, tax-or-net, and the
\* neutral colour when none matches; "Net Income" and "Pre-tax Income" get
\* the income colour.
C16_CategoryColorFirstMatch ==
    Returned("categoryColor") =>
        LET category == fnInput.str
            matching == {i \in DOMAIN ColorTests : TestMatches(i, category)}
        IN  /\ matching = {} => fnOutput.value.str = COLORS.catOther
            /\ \A i \in matching :
                    (\A j \in matching : i <= j) => fnOutput.value.str = ColorTests[i].color
            /\ category \in {"Net Income", "Pre-tax Income"}
                    => fnOutput.value.str = COLORS.catIncome

\* a category that matches both the income test and the tax-or-net test
C16_Witness ==
    /\ Returned("categoryColor")
    /\ fnInput.str = "Net Income"
    /\ TestMatches(5, fnInput.str) /\ TestMatches(6, fnInput.str)
    /\ fnOutput.value.str = COLORS.catIncome

\* the table of getCurrencySymbol
CurrencyTable ==
    {<<"USD", "$">>, <<"EUR", "€">>, <<"GBP", "£">>, <<"JPY", "¥">>, <<"INR", "₹">>,
     <<"CAD", "C$">>, <<"AUD", "A$">>, <<"CHF", "Fr">>, <<"CNY", "¥">>, <<"KRW", "₩">>}

\* C17: getCurrencySymbol gives the table symbol for each of the ten codes,
\* in any case, and for every other code the code followed by one space.
C17_CurrencySymbolOrCodeAndSpace ==
    Returned("getCurrencySymbol") =>
        LET code == fnInput.str
            rows == {r \in CurrencyTable : toUpperCase(code) = r[1]}
        IN  /\ \A r \in rows : fnOutput.value.str = r[2]
            /\ rows = {} => /\ Len(fnOutput.value.str) = Len(code) + 1
                            /\ StartsWith(fnOutput.value.str, code)
                            /\ EndsWith(fnOutput.value.str, " ")
            /\ code = "XYZ" => fnOutput.value.str = "XYZ "

\* the symbol of a code of the table written in lower case, and the
\* fallback for an unrecognised code
C17_Witness ==
    /\ Returned("getCurrencySymbol")
    /\ \/ fnInput.str = "eur" /\ fnOutput.value.str = "€"
       \/ fnInput.str = "XYZ" /\ fnOutput.value.str = "XYZ "

\* the numeric growth cells of the Income Statement sheet show a sign, "+"
\* for zero and above, and one decimal (tenths of a percent)
SheetGrowthSigned ==
    Produced =>
        \A k \in 1..Len(Items) : \A gi \in 1..(NumPeriods - 1) :
            LET cell == IncomeCells(k)[3 + NumPeriods + (gi - 1)]
            IN  IsNumber(cell.value) =>
                    /\ cell.numFmt = "+0.0%;-0.0%;0.0%"
                    /\ PercentDisplay(cell).sign = IF cell.value.v >= 0 THEN "+" ELSE "-"

\* formatPct does the same on screen: sign, digits, ".", one digit, "%"
ScreenGrowthSigned ==
    (Returned("formatPct") /\ IsNumber(fnInput.num)) =>
        LET shown == fnOutput.value.str
        IN  /\ StartsWith(shown, IF fnInput.num.v >= 0 THEN "+" ELSE "-")
            /\ EndsWith(shown, "%")
            /\ SubSeq(shown, Len(shown) - 2, Len(shown) - 2) = "."

\* C18: a growth value is displayed as a percentage with one decimal and an
\* explicit sign, "+" for every value that is zero or above, in the growth
\* cells of the Income Statement sheet and by formatPct.
C18_GrowthShownWithSign == SheetGrowthSigned /\ ScreenGrowthSigned

(***************************************************************************)
(* Row styling                                                             *)
(***************************************************************************)
\* the background the statement gives a data row
StatedFill(item) ==
    IF item.isTotal THEN COLORS.totalBg
    ELSE CASE item.confidence = "high" -> COLORS.confHigh
           [] item.confidence = "medium" -> COLORS.confMedium
           [] item.confidence = "low" -> COLORS.confLow
           [] item.confidence = "missing" -> COLORS.confMissing

\* the column of the Confidence cell of a data row
ConfidenceColumn == 3 + NumPeriods + (NumPeriods - 1)

\* C19: in a data row of the Income Statement sheet the Category, Line Item,
\* period-value and Confidence cells have the total colour when isTotal is
\* set, whatever the confidence, and otherwise the colour of the item's
\* confidence, the four colours and the total colour being different; a
\* negative period value has the red negative font, on total rows too.
C19_RowFillByTotalOrConfidence ==
    /\ \A c, d \in ConfidenceLevel :
            /\ c # d => confidenceColor(c) # confidenceColor(d)
            /\ confidenceColor(c) # COLORS.totalBg
    /\ Produced =>
            \A k \in 1..Len(Items) :
                Items[k].confidence \in ConfidenceLevel =>
                    /\ \A col \in {1, 2, ConfidenceColumn} \cup {2 + pi : pi \in 1..NumPeriods} :
                            IncomeCells(k)[col].fill = StatedFill(Items[k])
                    /\ \A pi \in 1..NumPeriods :
                            IsNegative(Lookup(Items[k].values, request.periods[pi]))
                                => IncomeCells(k)[2 + pi].font = COLORS.negativeFont

\* a total row of low confidence with a negative period value
C19_Witness ==
    /\ Produced
    /\ NumPeriods >= 1
    /\ Len(Items) >= 1
    /\ Items[1].isTotal
    /\ Items[1].confidence = "low"
    /\ IsNegative(Lookup(Items[1].values, request.periods[1]))
    /\ IncomeCells(1)[3].font = COLORS.negativeFont

(***************************************************************************)
(* Download filename                                                       *)
(***************************************************************************)
\* the name before the suffix
Stem(filename) == SubSeq(filename, 1, Len(filename) - Len("_FinancialStatement.xlsx"))

\* C20: the filename of an accepted record is the company name with every
\* character outside [a-zA-Z0-9_-] replaced by "_", cut to at most 40
\* characters, then "_FinancialStatement.xlsx"; it has only safe characters
\* (and the "." of the extension) and at most 64 characters.
C20_FilenameSanitisedAndBounded ==
    Produced =>
        LET name == request.companyName
            filename == response.filename
            stem == Stem(filename)
        IN  /\ EndsWith(filename, "_FinancialStatement.xlsx")
            /\ Len(stem) = Min(Len(name), 40)
            /\ \A i \in 1..Len(stem) :
                    SubSeq(stem, i, i) =
                        IF SubSeq(name, i, i) \in SafeChars THEN SubSeq(name, i, i) ELSE "_"
            /\ \A i \in 1..Len(filename) : SubSeq(filename, i, i) \in SafeChars \cup {"."}
            /\ Len(filename) <= 64

\* a company name of more than 40 characters with unsafe ones among the
\* first 40, giving a filename of 64 characters
C20_Witness ==
    /\ Produced
    /\ Len(request.companyName) > 40
    /\ \E i \in 1..40 : SubSeq(request.companyName, i, i) \notin SafeChars
    /\ Len(response.filename) = 64

(***************************************************************************)
(* LLM replies                                                             *)
(***************************************************************************)
\* the upload reached the LLM step and the API returned a reply
ReplyReceived == UploadResponded /\ llmCalls = 1 /\ upload.llm.thrown = ""

\* the reply is no JSON text once a leading and a trailing fence are stripped
Unparseable(raw) == safeParseJSON(raw).threw

ParseFailurePrefix ==
    IF upload.endpoint = "/api/extract-financial"
    THEN "Failed to parse financial extraction result: "
    ELSE "Failed to parse earnings analysis result: "

\* C21: a non-empty reply that does not parse as JSON fails with the
\* parse-failure error of the endpoint's function, whose message carries the
\* first 300 characters of the reply and no more, whatever the reply's length;
\* an empty reply fails with the separate "Empty response" error.
C21_ParseFailureCarriesFirst300 ==
    ReplyReceived =>
        LET raw == upload.llm.raw
            lead == "Error: " \o ParseFailurePrefix
        IN  /\ raw = "" =>
                /\ apiResponse.status = 502
                /\ apiResponse.details = "Error: Empty response from Groq API"
            /\ (raw # "" /\ Unparseable(raw)) =>
                /\ apiResponse.status = 502
                /\ apiResponse.details = lead \o SubSeq(raw, 1, Min(300, Len(raw)))
                /\ Len(apiResponse.details) <= Len(lead) + 300

\* a reply of more than 300 characters failed to parse
C21_Witness ==
    /\ ReplyReceived
    /\ Len(upload.llm.raw) > 300
    /\ Unparseable(upload.llm.raw)
    /\ apiResponse.status = 502

(***************************************************************************)
(* Retries                                                                 *)
(***************************************************************************)
\* a failure detected before a step is returned without taking the step
FailureReturnedAtOnce ==
    /\ apiResponse.status \in {400, 413, 415} => extractorCalls = 0 /\ llmCalls = 0
    /\ apiResponse.status = 422 => llmCalls = 0

\* C22: handling one upload makes at most one call to the text extractor and
\* at most one request to the LLM API, and a failure is returned with no
\* further call made.
C22_NoAutomaticRetries ==
    UploadResponded =>
        /\ extractorCalls <= 1
        /\ llmCalls <= 1
        /\ FailureReturnedAtOnce

\* one click on Analyze sends one request
OneRequestPerClick == sent = clicks

(***************************************************************************)
(* Truncation marker                                                       *)
(***************************************************************************)
\* the extracted text exceeded the character budget
OverBudget == TextLength(upload.file.buffer.text) > 100000

\* what the LLM replied, parsed
Replied == safeParseJSON(upload.llm.raw).value

\* C23: in a successful upload response extractionNotes begins with the
\* "[Document truncated: " marker exactly when the extracted text exceeded
\* 100,000 characters, the LLM's notes following the marker; a document that
\* was not truncated gets the LLM's result unchanged.
C23_MarkerIffTruncated ==
    (UploadResponded /\ apiResponse.status = 200) =>
        LET notes == apiResponse.data.extractionNotes
        IN  /\ OverBudget <=> StartsWith(notes, "[Document truncated: ")
            /\ OverBudget => EndsWith(notes, "characters analyzed] " \o Replied.extractionNotes)
            /\ ~OverBudget => apiResponse.data = Replied

\* a truncated document was analysed and the response carries the marker
C23_Witness ==
    /\ UploadResponded
    /\ apiResponse.status = 200
    /\ OverBudget
    /\ apiResponse.data.extractionNotes =
            "[Document truncated: only first 90K of 110K characters analyzed] ok"

(***************************************************************************)
(* Column indices                                                          *)
(***************************************************************************)
\* the column indices the sheet uses, in the order of the layout: Category,
\* Line Item, the periods, the YoY pairs, Confidence, Notes
ColumnsUsed ==
    LET n == NumPeriods
        yoy == IF n <= 1 THEN <<>> ELSE [i \in 1..(n - 1) |-> 3 + n + (i - 1)]
    IN  <<1, 2>> \o [i \in 1..n |-> 3 + (i - 1)] \o yoy
            \o <<confColIdx(request), confColIdx(request) + 1>>

\* C24: for every number of periods n >= 0 the column indices of Category,
\* Line Item, the periods, the YoY pairs, Confidence and Notes are pairwise
\* distinct, so the Line Item header and every line item's label stay in
\* column 2 and are not overwritten by the Confidence column.
C24_ColumnIndicesDistinct ==
    Produced =>
        /\ \A i, j \in DOMAIN ColumnsUsed : i # j => ColumnsUsed[i] # ColumnsUsed[j]
        /\ Income.header[2].value = Str("Line Item")
        /\ \A k \in 1..Len(Items) : IncomeCells(k)[2].value = Str(Items[k].standardLabel)

(***************************************************************************)
(* The page and its upload widget                                          *)
(***************************************************************************)
\* the FileUpload widget is rendered
WidgetShown == page.state # "done"

\* C25: while the widget is shown, the file the page holds is the file the
\* widget shows as selected; with no file shown in the widget the page holds
\* none and Analyze is disabled.
C25_PageFileIsWidgetFile ==
    WidgetShown =>
        /\ page.file = widget.selectedFile
        /\ widget.selectedFile = null => ~AnalyzeEnabled

\* the two files agree in every step that starts with them agreeing, except
\* the step of the remove-file button and the step of reset
AgreeUnlessClearedOrReset ==
    [][(page.file = widget.selectedFile /\ widget' # [selectedFile |-> null, error |-> null]
            /\ page'.file # null /\ page'.state # "done")
        => page'.file = widget'.selectedFile]_vars

\* the parts of the page's state agree in states 'error' and 'analyzing',
\* 'done' leaves no error, and one request at most is in flight
PageStateConsistent ==
    /\ page.state = "done" => page.error = null
    /\ page.state = "error" => page.error # null /\ page.result = null
    /\ page.state = "analyzing" => page.error = null /\ page.result = null
    /\ page.state = "analyzing" <=> inFlight = 1
    /\ inFlight <= 1

\* C26: state 'done' comes with a result and no error, 'error' with an error
\* and no result, 'analyzing' with neither, and at most one analysis request
\* is in flight.
C26_PageStateConsistent ==
    /\ PageStateConsistent
    /\ page.state = "done" => page.result # null

(***************************************************************************)
(* Order of the checks                                                     *)
(***************************************************************************)
\* the first check the upload fails, as the status it is to be answered
\* with, 0 when it passes them all
FirstFailedCheck ==
    LET file == upload.file
        extension == toLowerCase(file.name)
        text == ParseDocument(file)
    IN  IF ~upload.formOk \/ ~upload.hasFile \/ file.kind # "File" THEN 400
        ELSE IF file.size > 10 * 1024 * 1024 THEN 413
        ELSE IF ~(\/ file.type \in {"application/pdf", "text/plain"}
                  \/ EndsWith(extension, ".pdf") \/ EndsWith(extension, ".txt")) THEN 415
        ELSE IF text.threw \/ TextLength(TextTrim(text.text)) < 100 THEN 422
        ELSE 0

\* C27: the LLM client is called only when the body is a readable form with a
\* file, the file has at most 10 MB, is a PDF or TXT by type or extension, and
\* its text is extracted with at least 100 characters after trimming; the
\* first of these checks that fails is answered with 400, 413, 415 or 422 in
\* that order, no later step being taken.
C27_ChecksBeforeLLM ==
    UploadResponded =>
        /\ llmCalls > 0 => FirstFailedCheck = 0
        /\ FirstFailedCheck # 0 =>
            /\ apiResponse.status = FirstFailedCheck
            /\ llmCalls = 0
            /\ extractorCalls = IF FirstFailedCheck = 422 THEN 1 ELSE 0


\* C28: in FinancialResults a download that has settled leaves downloading
\* false whether it succeeded or failed, a request is in flight only while
\* downloading is true and never more than one, and once an attempt has
\* settled downloadError is set exactly when that attempt failed.
DownloadSettled == results.attempts > 0 /\ results.inFlight = 0

C28_DownloadEndsAndErrorTracksLast ==
    /\ results.inFlight \in {0, 1}
    /\ results.downloading <=> results.inFlight = 1
    /\ DownloadSettled => (results.downloadError # null <=> results.lastFailed)

\* a second or later attempt has failed and has left downloading false
C28_Witness ==
    /\ DownloadSettled /\ results.attempts >= 2
    /\ results.lastFailed /\ results.downloadError # null /\ ~results.downloading

\* the banner and line item rows of the Income Statement sheet, in order
SheetOutline ==
    [j \in 1..Len(Income.rows) |->
        [kind |-> Income.rows[j].kind, item |-> Income.rows[j].item,
         text |-> Income.rows[j].text]]

\* C29: for every list of line items, those with non-contiguous categories
\* included, the table on screen and the Income Statement sheet show the same
\* sequence of category banners with the same line items beneath them.
C29_ScreenMatchesSheet ==
    Produced => TableBody(Items, categories(Items, {})) = SheetOutline

\* C29 restricted to lists in which the items of each category are contiguous
ScreenMatchesSheetWhenContiguous ==
    (Produced /\ Contiguous(Items)) => TableBody(Items, categories(Items, {})) = SheetOutline

\* C30 (ranges): while mounted, progress is in 0..92, never 100, and
\* currentStep is in 0..steps.length - 1
LoadingInRange ==
    loading.mounted =>
        /\ loading.progress \in 0..ProgressCap
        /\ loading.progress # 100
        /\ loading.currentStep \in 0..(loading.steps - 1)

\* C30 (order): neither value decreases while the component stays mounted
LoadingMonotone ==
    (loading.mounted /\ loading'.mounted) =>
        /\ loading'.progress >= loading.progress
        /\ loading'.currentStep >= loading.currentStep

LoadingAtCaps ==
    /\ loading.progress = ProgressCap
    /\ loading.currentStep = loading.steps - 1

\* C30: in LoadingState, however the two timers interleave, progress stays in
\* 0..92 (so never shows 100) and currentStep in 0..steps.length - 1, neither
\* decreases, and a component that stays mounted ends with both at their caps
\* for good.
C30_TimersBoundedMonotoneAndReachCaps ==
    /\ []LoadingInRange
    /\ [][LoadingMonotone]_vars
    /\ (<>[]loading.mounted) => <>[](loading.mounted /\ LoadingAtCaps)

\* both timers have fired, in either order, and both values are at their caps
C30_Witness ==
    loading.mounted /\ LoadingAtCaps /\ loading.steps = 9


====
